---- MODULE Spec2Model ----
(***************************************************************************)
(* A model of the text storage of the micro editor: the LineArray (lines   *)
(* of bytes with highlight slots), the rune-to-byte index translation, the *)
(* Buffer wrappers around it, and the load / save paths.                   *)
(*                                                                         *)
(* Bytes are integers 0..255.  Locations are records [X, Y] with the       *)
(* zero-based rune column X and line index Y of the Go code; sequences     *)
(* are one-based, so Go's lines[y] is la[y + 1] here.                      *)
(***************************************************************************)
EXTENDS Integers, Sequences, FiniteSets, TLC

VARIABLES
    lines,       \* LineArray.lines: sequence of Line records
    NumLines,    \* Buffer.NumLines
    IsModified,  \* Buffer.IsModified
    last,        \* the operation applied last: its name, arguments and result,
                 \* and the lines it started from
    reader,      \* the reader handed to NewBuffer: its bytes and how it ends
    fileformat,  \* Settings["fileformat"]
    disk,        \* the bytes Encode produced, Nil before
    rrunes,      \* runeToByteIndex: the runes of the line, each its bytes
    rn,          \* runeToByteIndex: the rune offset asked for
    rout,        \* runeToByteIndex: the byte offset returned, -1 before
    UndoStack,   \* EventHandler.UndoStack: groups of deltas, the newest last
    RedoStack,   \* EventHandler.RedoStack
    open,        \* whether the newest group of UndoStack still takes deltas
    run,         \* the edits, undos and redos so far, and the contents before
                 \* the first edit and before the first undo
    Settings,    \* Buffer.Settings: rmtrailingws, eofnewline, fastdirty,
                 \* savecursor, saveundo
    Password,    \* Buffer.Password
    origHash,    \* Buffer.origHash
    file,        \* the file on disk that SaveAs writes
    save,        \* the save made last: its outcome and what it started from
    Cursor,      \* Buffer.Cursor.Loc
    EventHandler,\* Buffer.EventHandler: "fresh" from NewEventHandler, "restored"
                 \* from the persisted history, "nil"
    ModTime,     \* Buffer.ModTime
    env,         \* what NewBufferWithPassword finds: the version of the code,
                 \* -startpos, the position after the file name, the history
                 \* file, whether Decode fails
    opened,      \* how the load ended
    cursors,     \* Buffer.cursors: each cursor its Loc, its Num and the
                 \* pointer it is (ptr)
    curCursor,   \* Buffer.curCursor
    merge,       \* the version of MergeCursors in use
    brace,       \* FindMatchingBrace: its arguments and what it returned
    store,       \* the disk as the history needs it: the modification time of
                 \* the file and the snapshot in configDir/buffers
    shell,       \* a shell command or a sudo save under way: where the main
                 \* thread and the goroutine stand, the child process, the
                 \* signal channel, the message shown
    info         \* the InfoBuf: its flags, Msg, Secret, History, the text of
                 \* its buffer, the two callbacks it holds, and the prompts
                 \* started and the callbacks invoked so far

bufVars == <<lines, NumLines, IsModified, last>>
loadVars == <<reader, fileformat, disk>>
runeVars == <<rrunes, rn, rout>>
undoVars == <<UndoStack, RedoStack, open, run>>
saveVars == <<Settings, Password, origHash, file, save>>
openVars == <<Cursor, EventHandler, ModTime, env, opened>>
cursorVars == <<cursors, curCursor, merge>>
moreVars == <<cursorVars, brace, shell, store, info>>
extVars == <<saveVars, openVars, moreVars>>

vars == <<bufVars, loadVars, runeVars, undoVars, extVars>>

----------------------------------------------------------------------------
(* Bounds of the model *)

\* the largest buffer, counted in the bytes of its serialisation
MaxBytes == 3

\* the longest stream handed to NewBuffer, in bytes
MaxStream == 3

\* the longest line handed to runeToByteIndex, in runes
MaxRunes == 3

\* the largest LineArray Split is applied to, in the bytes of its serialisation
MaxSplitBytes == 4

\* the most Insert and Remove calls of a run, and the most Undo and Redo calls
MaxEdits == 2

----------------------------------------------------------------------------
(* Bytes *)

LF == 10

Nil == "nil"

Loc(x, y) == [X |-> x, Y |-> y]

Line(d, s, m, r) == [data |-> d, state |-> s, match |-> m, rehighlight |-> r]

\* the tail s[i..] of a Go slice, i zero-based
From(s, i) == SubSeq(s, i + 1, Len(s))

\* the head s[..i] of a Go slice, i zero-based and exclusive
Upto(s, i) == SubSeq(s, 1, i)

----------------------------------------------------------------------------
(* unicode/utf8 *)

IsCont(b) == b >= 128 /\ b <= 191

\* The width utf8.DecodeRune reports for the first rune of txt: the length of
\* a well-formed encoding, and 1 (RuneError) for anything else.
DecodeRuneSize(txt) ==
    LET n  == Len(txt)
        b0 == txt[1]
        lo == IF b0 = 224 THEN 160 ELSE IF b0 = 240 THEN 144 ELSE 128
        hi == IF b0 = 237 THEN 159 ELSE IF b0 = 244 THEN 143 ELSE 191
        need == IF b0 >= 194 /\ b0 <= 223 THEN 2
                ELSE IF b0 >= 224 /\ b0 <= 239 THEN 3
                ELSE IF b0 >= 240 /\ b0 <= 244 THEN 4
                ELSE 1
    IN  IF n = 0 THEN 0
        ELSE IF need = 1 \/ n < need THEN 1
        ELSE IF txt[2] < lo \/ txt[2] > hi THEN 1
        ELSE IF \E j \in 3..need : ~IsCont(txt[j]) THEN 1
        ELSE need

RECURSIVE RuneCount(_)
RuneCount(txt) ==
    IF Len(txt) = 0 THEN 0
    ELSE 1 + RuneCount(From(txt, DecodeRuneSize(txt)))

RECURSIVE runeLoop(_, _, _, _)
runeLoop(txt, count, i, n) ==
    IF Len(txt) = 0 THEN count
    ELSE LET size == DecodeRuneSize(txt)
         IN  IF i + 1 = n THEN count + size
             ELSE runeLoop(From(txt, size), count + size, i + 1, n)

\* the rune offset taken for a byte offset
runeToByteIndexAsBytes(n, txt) ==
    IF n > Len(txt) THEN Len(txt) ELSE n

runeToByteIndex(n, txt) ==
    IF n = 0 THEN 0 ELSE runeLoop(txt, 0, 0, n)

----------------------------------------------------------------------------
(* LineArray *)

\* the lines below the new one lose their states and matches
NewlineBelowClearsBelow(la, y) ==
    Upto(la, y + 1) \o <<Line(<<>>, la[y + 1].state, Nil, FALSE)>>
    \o [i \in 1..(Len(la) - y - 1) |-> Line(la[y + 1 + i].data, Nil, Nil, FALSE)]

NewlineBelow(la, y) ==
    Upto(la, y + 1) \o <<Line(<<>>, la[y + 1].state, Nil, FALSE)>> \o From(la, y + 1)

insertByte(la, pos, value) ==
    [la EXCEPT ![pos.Y + 1].data =
        Upto(@, pos.X) \o <<value>> \o From(@, pos.X)]

DeleteToEnd(la, pos) ==
    [la EXCEPT ![pos.Y + 1].data = Upto(@, pos.X)]

DeleteFromStart(la, pos) ==
    [la EXCEPT ![pos.Y + 1].data = From(@, pos.X + 1)]

DeleteLine(la, y) ==
    Upto(la, y) \o From(la, y + 1)

RECURSIVE insertLoop(_, _, _, _, _)
RECURSIVE Split(_, _)

\* the column taken for a byte offset of the line
insertAtByteColumn(la, pos, value) ==
    insertLoop(la, pos.X, pos.Y, value, 1)

insert(la, pos, value) ==
    insertLoop(la, runeToByteIndex(pos.X, la[pos.Y + 1].data), pos.Y, value, 1)

insertLoop(la, x, y, value, i) ==
    IF i > Len(value) THEN la
    ELSE IF value[i] = LF
         THEN insertLoop(Split(la, Loc(x, y)), 0, y + 1, value, i + 1)
         ELSE insertLoop(insertByte(la, Loc(x, y), value[i]), x + 1, y, value, i + 1)

\* a split that leaves the state with the upper line
SplitKeepsState(la, pos) ==
    LET a == NewlineBelow(la, pos.Y)
        b == insert(a, Loc(0, pos.Y + 1), From(a[pos.Y + 1].data, pos.X))
        c == [b EXCEPT ![pos.Y + 2].state = Nil,
                       ![pos.Y + 1].match = Nil,
                       ![pos.Y + 2].match = Nil,
                       ![pos.Y + 1].rehighlight = TRUE]
    IN  DeleteToEnd(c, Loc(pos.X, pos.Y))

Split(la, pos) ==
    LET a == NewlineBelow(la, pos.Y)
        b == insert(a, Loc(0, pos.Y + 1), From(a[pos.Y + 1].data, pos.X))
        c == [b EXCEPT ![pos.Y + 2].state = b[pos.Y + 1].state,
                       ![pos.Y + 1].state = Nil,
                       ![pos.Y + 1].match = Nil,
                       ![pos.Y + 2].match = Nil,
                       ![pos.Y + 1].rehighlight = TRUE]
    IN  DeleteToEnd(c, Loc(pos.X, pos.Y))

\* line b is copied onto line a and stays where it was
JoinLinesKeepsLine(la, a, b) ==
    insert(la, Loc(Len(la[a + 1].data), a), la[b + 1].data)

JoinLines(la, a, b) ==
    DeleteLine(insert(la, Loc(Len(la[a + 1].data), a), la[b + 1].data), b)

RECURSIVE substrMiddle(_, _, _)
substrMiddle(la, i, endY) ==
    IF i > endY - 1 THEN <<>>
    ELSE la[i + 1].data \o <<LF>> \o substrMiddle(la, i + 1, endY)

Substr(la, start, end) ==
    LET startX == runeToByteIndex(start.X, la[start.Y + 1].data)
        endX   == runeToByteIndex(end.X, la[end.Y + 1].data)
    IN  IF start.Y = end.Y
        THEN SubSeq(la[start.Y + 1].data, startX + 1, endX)
        ELSE From(la[start.Y + 1].data, startX) \o <<LF>>
             \o substrMiddle(la, start.Y + 1, end.Y)
             \o Upto(la[end.Y + 1].data, endX)

\* the lines between the first and the last stay
removeMiddleKeepsLines(la, i, startY, endY) == la

RECURSIVE removeMiddle(_, _, _, _)
removeMiddle(la, i, startY, endY) ==
    IF i > endY - 1 THEN la
    ELSE removeMiddle(DeleteLine(la, startY + 1), i + 1, startY, endY)

\* the byte at end goes with the removed span
removeInclusive(la, start, end) ==
    LET sub    == Substr(la, start, end)
        startX == runeToByteIndex(start.X, la[start.Y + 1].data)
        endX   == runeToByteIndex(end.X, la[end.Y + 1].data)
        same   == [la EXCEPT ![start.Y + 1].data = Upto(@, startX) \o From(@, endX + 1)]
        a      == removeMiddle(la, start.Y + 1, start.Y, end.Y)
        b      == DeleteToEnd(a, Loc(startX, start.Y))
        c      == DeleteFromStart(b, Loc(endX, start.Y + 1))
    IN  [la  |-> IF start.Y = end.Y THEN same ELSE JoinLines(c, start.Y, start.Y + 1),
         sub |-> sub]

\* remove returns the removed text; here the pair of the new lines and it
remove(la, start, end) ==
    LET sub    == Substr(la, start, end)
        startX == runeToByteIndex(start.X, la[start.Y + 1].data)
        endX   == runeToByteIndex(end.X, la[end.Y + 1].data)
        same   == [la EXCEPT ![start.Y + 1].data = Upto(@, startX) \o From(@, endX)]
        a      == removeMiddle(la, start.Y + 1, start.Y, end.Y)
        b      == DeleteToEnd(a, Loc(startX, start.Y))
        c      == DeleteFromStart(b, Loc(endX - 1, start.Y + 1))
    IN  [la  |-> IF start.Y = end.Y THEN same ELSE JoinLines(c, start.Y, start.Y + 1),
         sub |-> sub]

----------------------------------------------------------------------------
(* NewLineArray: the reader is a finite byte stream and the way it ends *)

EOF == "EOF"

Reader(bytes, err) == [nil |-> FALSE, bytes |-> bytes, err |-> err]

NilReader == [nil |-> TRUE, bytes |-> <<>>, err |-> EOF]

\* the zero-based index of the first line feed of s, or Len(s) with none
RECURSIVE IndexLF(_, _)
IndexLF(s, i) ==
    IF i >= Len(s) THEN Len(s)
    ELSE IF s[i + 1] = LF THEN i
    ELSE IndexLF(s, i + 1)

\* the loop that appends no line for an empty rest at the end of the stream
RECURSIVE readLinesSkipsEmptyRest(_, _, _)
readLinesSkipsEmptyRest(la, rest, err) ==
    LET k == IndexLF(rest, 0)
    IN  IF k = Len(rest)
        THEN IF err = EOF /\ Len(rest) > 0
             THEN la \o <<Line(rest, Nil, Nil, FALSE)>> ELSE la
        ELSE readLinesSkipsEmptyRest(la \o <<Line(Upto(rest, k), Nil, Nil, FALSE)>>,
                                     From(rest, k + 1), err)

\* the loop of NewLineArray over the unread bytes rest: ReadBytes hands over
\* the bytes up to and including the next line feed, or the remaining bytes
\* together with the reader's error
RECURSIVE readLines(_, _, _)
readLines(la, rest, err) ==
    LET k == IndexLF(rest, 0)
    IN  IF k = Len(rest)
        THEN IF err = EOF THEN la \o <<Line(rest, Nil, Nil, FALSE)>> ELSE la
        ELSE readLines(la \o <<Line(Upto(rest, k), Nil, Nil, FALSE)>>,
                       From(rest, k + 1), err)

NewLineArray(r) ==
    IF r.nil THEN <<Line(<<>>, Nil, Nil, FALSE)>>
    ELSE readLines(<<>>, r.bytes, r.err)

----------------------------------------------------------------------------
(* Buffer *)

\* Buffer.End
End(la, n) == Loc(RuneCount(la[n].data), n - 1)

Start == Loc(0, 0)

\* the locations a caller may pass: a line of the buffer and a rune column of it
ValidLocs(la) ==
    UNION { { Loc(x, y) : x \in 0..RuneCount(la[y + 1].data) } : y \in 0..(Len(la) - 1) }

LocLE(a, b) == a.Y < b.Y \/ (a.Y = b.Y /\ a.X <= b.X)

\* the index checks of the Go runtime on the path of remove
removePanics(la, start, end) ==
    \/ start.Y < 0 \/ start.Y >= Len(la)
    \/ end.Y < 0 \/ end.Y >= Len(la)
    \/ /\ start.Y = end.Y
       /\ runeToByteIndex(start.X, la[start.Y + 1].data)
            > runeToByteIndex(end.X, la[end.Y + 1].data)
    \/ start.Y > end.Y

insertPanics(la, pos) ==
    pos.Y < 0 \/ pos.Y >= Len(la)

\* the bytes the buffer serialises to with line feeds between the lines
RECURSIVE Flat(_)
Flat(la) ==
    IF Len(la) = 0 THEN <<>>
    ELSE IF Len(la) = 1 THEN la[1].data
    ELSE la[1].data \o <<LF>> \o Flat(Tail(la))

DataOf(la) == [i \in 1..Len(la) |-> la[i].data]

\* all byte sequences over S of length at most n
RECURSIVE SeqsUpTo(_, _)
SeqsUpTo(S, n) ==
    IF n = 0 THEN {<<>>}
    ELSE LET shorter == SeqsUpTo(S, n - 1)
         IN  shorter \cup { Append(s, b) : s \in { t \in shorter : Len(t) = n - 1 }, b \in S }

\* 'a', the two bytes of U+00E9 (also met alone), and the line feed;
\* U+20AC as a rune of three bytes
EditBytes == {97, 195, 169}
Euro == <<226, 130, 172>>

InitStreams == SeqsUpTo(EditBytes \cup {LF}, MaxBytes) \cup {Euro, <<97>> \o Euro}
\* the texts handed to Insert: empty, of one byte (a lead and a continuation
\* byte alone among them), of one rune, and with line feeds
InsertTexts ==
    { <<>>, <<97>>, <<195>>, <<169>>, <<LF>>, <<195, 169>>, <<97, LF>>,
      <<195, 169, LF>>, <<LF, 97>>, Euro }

Op(name) == [op |-> name, pos |-> Start, end |-> Start, text |-> <<>>, sub |-> <<>>,
             pre |-> <<>>, inv |-> FALSE, panic |-> FALSE]

NoDisk == [written |-> FALSE, bytes |-> <<>>]

\* the variables of the load path and of the rune translation, when unused
LoadIdle == reader = NilReader /\ fileformat = "unix" /\ disk = NoDisk
RuneIdle == rrunes = <<>> /\ rn = 0 /\ rout = -1
NoRun == [phase |-> "none", edits |-> 0, undos |-> 0, redos |-> 0, made |-> 0,
          base |-> <<>>, post |-> <<>>]
UndoIdle == UndoStack = <<>> /\ RedoStack = <<>> /\ open = FALSE /\ run = NoRun
\* the settings a buffer reads, all off
NoSettings == [rmtrailingws |-> FALSE, eofnewline |-> FALSE, fastdirty |-> FALSE,
               savecursor |-> FALSE, saveundo |-> FALSE]
NoFile == [bytes |-> <<>>, encrypted |-> FALSE]
NoSave == [n |-> 0, op |-> "none", outcome |-> "none", err |-> FALSE, pre |-> <<>>, prefile |-> NoFile,
           premodified |-> FALSE, captured |-> <<>>, groups |-> 0]
SaveIdle ==
    /\ Settings = NoSettings /\ Password = "" /\ origHash = <<>>
    /\ file = NoFile /\ save = NoSave
NoRequest == [kind |-> "none", line |-> 0, col |-> 0]
NoHistory == [kind |-> "missing", Cursor |-> [X |-> 0, Y |-> 0], ModTime |-> 0]
NoEnv == [ver |-> "none", flagStartPos |-> NoRequest, cursorPosition |-> NoRequest,
          history |-> NoHistory, decodeErr |-> FALSE]
NotOpened == [done |-> FALSE, messages |-> 0, panic |-> FALSE, placeholder |-> FALSE,
              requested |-> [X |-> 0, Y |-> 0]]
OpenIdle ==
    /\ Cursor = [X |-> 0, Y |-> 0] /\ EventHandler = "fresh" /\ ModTime = 0
    /\ env = NoEnv /\ opened = NotOpened
NoBrace == [done |-> FALSE, braceType |-> <<>>, start |-> [X |-> 0, Y |-> 0],
            result |-> [X |-> 0, Y |-> 0], panic |-> FALSE]
NoSnapshot == [format |-> "none", UndoStack |-> <<>>, RedoStack |-> <<>>,
               Cursor |-> [X |-> 0, Y |-> 0], ModTime |-> 0]
NoHeld == [UndoStack |-> <<>>, RedoStack |-> <<>>, Cursor |-> [X |-> 0, Y |-> 0]]
NoStore == [mtime |-> 0, snapshot |-> NoSnapshot, phase |-> "none", via |-> "none",
            saved |-> NoHeld]
NoShell == [mode |-> "none", pc |-> "idle", go |-> "none", Process |-> "nil",
            started |-> FALSE, waitErr |-> FALSE, c |-> 0, interrupts |-> 0,
            crashed |-> FALSE, outLines |-> 0, err |-> FALSE, message |-> "",
            by |-> "none", raced |-> FALSE]
NoInfo == [HasPrompt |-> FALSE, HasMessage |-> FALSE, HasError |-> FALSE,
           HasYN |-> FALSE, HasGutter |-> FALSE, PromptType |-> "", Msg |-> "",
           YNResp |-> FALSE, Secret |-> <<>>,
           History |-> [text |-> <<>>, secret |-> <<>>], HistoryNum |-> 0,
           text |-> <<>>, PromptCallback |-> 0, YNCallback |-> 0,
           reg |-> <<>>, log |-> <<>>, cur |-> 0, typed |-> 0, panic |-> FALSE]
MoreIdle ==
    /\ cursors = <<>> /\ curCursor = 0 /\ merge = "none" /\ brace = NoBrace
    /\ shell = NoShell /\ store = NoStore /\ info = NoInfo
ExtIdle == SaveIdle /\ OpenIdle /\ MoreIdle
BufIdle == lines = <<>> /\ NumLines = 0 /\ IsModified = FALSE /\ last = Op("none")

\* a buffer built by NewBuffer from a stream read to its end
Init ==
    /\ \E s \in InitStreams : lines = NewLineArray(Reader(s, EOF))
    /\ NumLines = Len(lines)
    /\ IsModified = FALSE
    /\ last = Op("load")
    /\ LoadIdle /\ RuneIdle /\ UndoIdle /\ ExtIdle

\* the location just after text inserted at pos
RECURSIVE CountLF(_)
CountLF(t) == IF Len(t) = 0 THEN 0 ELSE (IF Head(t) = LF THEN 1 ELSE 0) + CountLF(Tail(t))

RECURSIVE AfterLastLF(_)
AfterLastLF(t) ==
    IF CountLF(t) = 0 THEN t ELSE AfterLastLF(From(t, IndexLF(t, 0) + 1))

EndOfInsert(pos, t) ==
    IF CountLF(t) = 0 THEN Loc(pos.X + RuneCount(t), pos.Y)
    ELSE Loc(RuneCount(AfterLastLF(t)), pos.Y + CountLF(t))

\* Buffer.insert
Insert(pos, value) ==
    /\ Len(Flat(lines)) + Len(value) <= MaxBytes
    /\ lines' = IF insertPanics(lines, pos) THEN lines ELSE insert(lines, pos, value)
    /\ NumLines' = Len(lines')
    /\ IsModified' = TRUE
    /\ last' = [op |-> "insert", pos |-> pos, end |-> EndOfInsert(pos, value),
                text |-> value, sub |-> <<>>, pre |-> lines,
                inv |-> /\ last.op = "remove"
                        /\ pos = last.pos
                        /\ value = last.sub,
                panic |-> insertPanics(lines, pos)]

\* this Remove takes out the span the last operation inserted
RemovesInserted(start, end) ==
    last.op = "insert" /\ start = last.pos /\ end = last.end

\* Buffer.remove
Remove(start, end) ==
    LET r == remove(lines, start, end)
    IN  /\ lines' = IF removePanics(lines, start, end) THEN lines ELSE r.la
        /\ NumLines' = Len(lines')
        /\ IsModified' = TRUE
        /\ last' = [op |-> "remove", pos |-> start, end |-> end,
                    text |-> IF RemovesInserted(start, end) THEN last.text ELSE <<>>,
                    sub |-> r.sub, pre |-> lines,
                    inv |-> RemovesInserted(start, end),
                    panic |-> removePanics(lines, start, end)]

DoInsert ==
    /\ \E pos \in ValidLocs(lines), value \in InsertTexts : Insert(pos, value)
    /\ UNCHANGED <<loadVars, runeVars, undoVars, extVars>>

DoRemove ==
    /\ \E start \in ValidLocs(lines), end \in ValidLocs(lines) :
          LocLE(start, end) /\ Remove(start, end)
    /\ UNCHANGED <<loadVars, runeVars, undoVars, extVars>>

Next == DoInsert \/ DoRemove

Spec == Init /\ [][Next]_vars

----------------------------------------------------------------------------
(* The LineArray alone: Split and JoinLines *)

SplitAt(pos) ==
    /\ Len(Flat(lines)) + 1 <= MaxSplitBytes
    /\ lines' = Split(lines, pos)
    /\ last' = [Op("split") EXCEPT !.pos = pos, !.pre = lines]

Join(a, b) ==
    /\ lines' = JoinLines(lines, a, b)
    /\ last' = [Op("join") EXCEPT
                    !.pos = IF last.op = "split" THEN last.pos ELSE Loc(0, a),
                    !.end = Loc(0, b),
                    !.pre = lines,
                    !.inv = /\ last.op = "split"
                            /\ a = last.pos.Y /\ b = last.pos.Y + 1]

\* Split takes a byte offset of the line
DoSplit ==
    /\ \E y \in 0..(Len(lines) - 1) :
          \E x \in 0..Len(lines[y + 1].data) : SplitAt(Loc(x, y))
    /\ UNCHANGED <<NumLines, IsModified, loadVars, runeVars, undoVars, extVars>>

DoJoinLines ==
    /\ \E a \in 0..(Len(lines) - 1), b \in 0..(Len(lines) - 1) :
          a # b /\ Join(a, b)
    /\ UNCHANGED <<NumLines, IsModified, loadVars, runeVars, undoVars, extVars>>

InitLA ==
    /\ \E s \in SeqsUpTo(EditBytes \cup {LF}, MaxSplitBytes) : lines = NewLineArray(Reader(s, EOF))
    /\ NumLines = Len(lines)
    /\ IsModified = FALSE
    /\ last = Op("load")
    /\ LoadIdle /\ RuneIdle /\ UndoIdle /\ ExtIdle

NextLA == DoSplit \/ DoJoinLines

SpecLA == InitLA /\ [][NextLA]_vars

----------------------------------------------------------------------------
(* The load path and Encode, without a password *)

\* the global fileformat: 0 - no line type detected, 1 - lf, 2 - crlf
fileformatDetected == 0

CR == 13

\* Buffer.Encode with an empty password
RECURSIVE encodeLines(_, _, _)
encodeLines(la, i, useCrlf) ==
    IF i > Len(la) THEN <<>>
    ELSE la[i].data
         \o (IF i # Len(la) THEN (IF useCrlf THEN <<CR, LF>> ELSE <<LF>>) ELSE <<>>)
         \o encodeLines(la, i + 1, useCrlf)

Encode(la, ff) == encodeLines(la, 1, ff = "dos")

LoadBytes == {97, LF, CR}

Readers ==
    { Reader(s, e) : s \in SeqsUpTo(LoadBytes, MaxStream), e \in {EOF, "ERR"} }
    \cup {NilReader}

\* NewBuffer: NewBufferWithPassword with an empty password
NewBuffer(r) ==
    /\ last.op = "none"
    /\ reader' = r
    /\ lines' = NewLineArray(r)
    /\ fileformat' = IF fileformatDetected = 1 THEN "unix"
                     ELSE IF fileformatDetected = 2 THEN "dos"
                     ELSE fileformat
    /\ NumLines' = Len(lines')
    /\ IsModified' = FALSE
    /\ last' = Op("load")
    /\ UNCHANGED disk

DoNewBuffer ==
    /\ \E r \in Readers : NewBuffer(r)
    /\ UNCHANGED <<runeVars, undoVars, extVars>>

DoEncode ==
    /\ last.op = "load"
    /\ disk' = [written |-> TRUE, bytes |-> Encode(lines, fileformat)]
    /\ last' = Op("encode")
    /\ UNCHANGED <<lines, NumLines, IsModified, reader, fileformat, runeVars, undoVars,
                   extVars>>

InitLoad ==
    /\ BufIdle /\ RuneIdle /\ UndoIdle /\ ExtIdle
    /\ reader = NilReader
    /\ fileformat \in {"unix", "dos"}
    /\ disk = NoDisk

NextLoad == DoNewBuffer \/ DoEncode

SpecLoad == InitLoad /\ [][NextLoad]_vars

----------------------------------------------------------------------------
(* runeToByteIndex on lines of well-formed runes *)

\* 'a', U+00E9, U+20AC and U+1F600
Runes == { <<97>>, <<195, 169>>, Euro, <<240, 159, 152, 128>> }

RECURSIVE Concat(_)
Concat(rs) == IF Len(rs) = 0 THEN <<>> ELSE Head(rs) \o Concat(Tail(rs))

DoRuneToByteIndex ==
    /\ rout = -1
    /\ rout' = runeToByteIndex(rn, Concat(rrunes))
    /\ UNCHANGED <<rrunes, rn, bufVars, loadVars, undoVars, extVars>>

InitRune ==
    /\ rrunes \in SeqsUpTo(Runes, MaxRunes)
    /\ rn \in 0..Len(rrunes)
    /\ rout = -1
    /\ BufIdle /\ LoadIdle /\ UndoIdle /\ ExtIdle

NextRune == DoRuneToByteIndex

SpecRune == InitRune /\ [][NextRune]_vars

----------------------------------------------------------------------------
(* The undo log.  Its code is not among the sources: it is written from the  *)
(* specification's section 4.3, on top of Buffer.insert and Buffer.remove.   *)

Delta(kind, text, from, to) == [kind |-> kind, text |-> text, from |-> from, to |-> to]

\* a delta joins the open group when it is a single character of the same
\* typing gesture; anything else starts a group of its own
PushDelta(stack, d, coalesce) ==
    IF coalesce /\ open /\ Len(stack) > 0 /\ RuneCount(d.text) = 1
    THEN [stack EXCEPT ![Len(stack)] = Append(@, d)]
    ELSE Append(stack, <<d>>)

\* the lines after taking a delta back
UndoDelta(la, d) ==
    IF d.kind = "insert" THEN remove(la, d.from, d.to).la
    ELSE insert(la, d.from, d.text)

\* the lines after applying a delta again
RedoDelta(la, d) ==
    IF d.kind = "insert" THEN insert(la, d.from, d.text)
    ELSE remove(la, d.from, d.to).la

\* the deltas of a group taken back, the newest first
RECURSIVE UndoGroup(_, _)
UndoGroup(la, g) ==
    IF Len(g) = 0 THEN la
    ELSE UndoGroup(UndoDelta(la, g[Len(g)]), Upto(g, Len(g) - 1))

\* the deltas of a group applied again, the oldest first
RECURSIVE RedoGroup(_, _)
RedoGroup(la, g) ==
    IF Len(g) = 0 THEN la
    ELSE RedoGroup(RedoDelta(la, Head(g)), Tail(g))

\* an edit counts for the run of edits, undos and redos while only edits came
Edited ==
    IF run.phase = "edit" THEN [run EXCEPT !.edits = @ + 1, !.made = @ + 1]
    ELSE [run EXCEPT !.phase = "mixed", !.made = @ + 1]

\* the redo stack survives a new edit
RedoKeptAfterEdit(stack) == stack

\* a new edit made outside of Undo and Redo clears the redo stack
RedoAfterEdit(stack) == <<>>

EHInsert(pos, value, coalesce) ==
    /\ Insert(pos, value)
    /\ UndoStack' = PushDelta(UndoStack, Delta("insert", value, pos, EndOfInsert(pos, value)),
                              coalesce)
    /\ RedoStack' = RedoAfterEdit(RedoStack)
    /\ open' = TRUE
    /\ run' = Edited

EHRemove(start, end, coalesce) ==
    /\ Remove(start, end)
    /\ UndoStack' = PushDelta(UndoStack, Delta("remove", Substr(lines, start, end), start, end),
                              coalesce)
    /\ RedoStack' = RedoAfterEdit(RedoStack)
    /\ open' = TRUE
    /\ run' = Edited

\* the texts typed or pasted: well-formed UTF-8
UndoTexts == { <<97>>, <<195, 169>>, <<195, 169, LF>> }

DoEHInsert ==
    /\ run.made < MaxEdits
    /\ \E pos \in ValidLocs(lines), value \in UndoTexts, coalesce \in BOOLEAN :
          EHInsert(pos, value, coalesce)
    /\ UNCHANGED <<loadVars, runeVars, extVars>>

DoEHRemove ==
    /\ run.made < MaxEdits
    /\ \E start \in ValidLocs(lines), end \in ValidLocs(lines), coalesce \in BOOLEAN :
          /\ LocLE(start, end) /\ start # end
          /\ EHRemove(start, end, coalesce)
    /\ UNCHANGED <<loadVars, runeVars, extVars>>

\* Undo: the newest group is taken back and moves to the redo stack
DoUndo ==
    /\ run.undos < MaxEdits
    /\ IF Len(UndoStack) = 0
       THEN UNCHANGED <<lines, NumLines, IsModified, UndoStack, RedoStack>>
       ELSE /\ lines' = UndoGroup(lines, UndoStack[Len(UndoStack)])
            /\ NumLines' = Len(lines')
            /\ IsModified' = TRUE
            /\ UndoStack' = Upto(UndoStack, Len(UndoStack) - 1)
            /\ RedoStack' = Append(RedoStack, UndoStack[Len(UndoStack)])
    /\ open' = FALSE
    /\ last' = [Op("undo") EXCEPT !.pre = lines]
    /\ run' = IF run.phase = "edit"
              THEN [run EXCEPT !.phase = "undo", !.undos = 1, !.post = DataOf(lines)]
              ELSE IF run.phase = "undo" THEN [run EXCEPT !.undos = @ + 1]
              ELSE [run EXCEPT !.phase = "mixed", !.undos = @ + 1]
    /\ UNCHANGED <<loadVars, runeVars, extVars>>

\* Redo: the group undone last is applied again and moves back
DoRedo ==
    /\ run.redos < MaxEdits
    /\ IF Len(RedoStack) = 0
       THEN UNCHANGED <<lines, NumLines, IsModified, UndoStack, RedoStack>>
       ELSE /\ lines' = RedoGroup(lines, RedoStack[Len(RedoStack)])
            /\ NumLines' = Len(lines')
            /\ IsModified' = TRUE
            /\ RedoStack' = Upto(RedoStack, Len(RedoStack) - 1)
            /\ UndoStack' = Append(UndoStack, RedoStack[Len(RedoStack)])
    /\ open' = FALSE
    /\ last' = [Op("redo") EXCEPT !.pre = lines]
    /\ run' = IF run.phase = "undo" /\ run.undos = run.edits
              THEN [run EXCEPT !.phase = "redo", !.redos = 1]
              ELSE IF run.phase = "redo" THEN [run EXCEPT !.redos = @ + 1]
              ELSE [run EXCEPT !.phase = "mixed", !.redos = @ + 1]
    /\ UNCHANGED <<loadVars, runeVars, extVars>>

\* the files opened: empty, one of Latin-1 bytes (U+00C3, 'a', U+00A9 as
\* single bytes), and one of well-formed UTF-8 with two lines
UndoStreams == { <<>>, <<195, 97, 169>>, <<97, LF, 195, 169>> }

InitUndo ==
    /\ \E s \in UndoStreams : lines = NewLineArray(Reader(s, EOF))
    /\ NumLines = Len(lines)
    /\ IsModified = FALSE
    /\ last = Op("load")
    /\ UndoStack = <<>> /\ RedoStack = <<>> /\ open = FALSE
    /\ run = [NoRun EXCEPT !.phase = "edit", !.base = DataOf(lines)]
    /\ LoadIdle /\ RuneIdle /\ ExtIdle

NextUndo == DoEHInsert \/ DoEHRemove \/ DoUndo \/ DoRedo

SpecUndo == InitUndo /\ [][NextUndo]_vars

----------------------------------------------------------------------------
(* Saving: SaveAs, SaveAsWithSudo and Modified, with the undo log above *)

MaxSaves == 2

\* const LargeFileThreshold
LargeFileThreshold == 50000

\* unicode.IsSpace on the runes of one byte
SpaceBytes == {9, 10, 11, 12, 13, 32}

\* bytes.TrimRightFunc(data, unicode.IsSpace): the white space of one byte,
\* U+0085 and U+00A0 are taken off the end
RECURSIVE TrimRight(_)
TrimRight(d) ==
    IF Len(d) = 0 THEN d
    ELSE IF d[Len(d)] \in SpaceBytes THEN TrimRight(Upto(d, Len(d) - 1))
    ELSE IF Len(d) >= 2 /\ d[Len(d) - 1] = 194 /\ d[Len(d)] \in {133, 160}
         THEN TrimRight(Upto(d, Len(d) - 2))
    ELSE d

\* the rmtrailingws loop of SaveAs from line i on: b.deleteToEnd on every
\* line that ends in white space
RECURSIVE trimLines(_, _)
trimLines(la, i) ==
    IF i >= Len(la) THEN la
    ELSE LET pos == Len(TrimRight(la[i + 1].data))
         IN  trimLines(IF pos < Len(la[i + 1].data)
                       THEN DeleteToEnd(la, Loc(pos, i)) ELSE la,
                       i + 1)

\* a RuneAt that finds no rune in an empty line
RuneAtNoneInEmptyLine(la, loc) ==
    LET line == IF loc.Y >= Len(la) THEN <<>> ELSE la[loc.Y + 1].data
    IN  IF RuneCount(line) > 0
        THEN SubSeq(line, runeToByteIndex(loc.X, line) + 1,
                    runeToByteIndex(loc.X + 1, line))
        ELSE <<>>

\* Buffer.RuneAt, a rune being the bytes of its encoding
RuneAt(la, loc) ==
    LET line == IF loc.Y >= Len(la) THEN <<>> ELSE la[loc.Y + 1].data
    IN  IF RuneCount(line) > 0
        THEN SubSeq(line, runeToByteIndex(loc.X, line) + 1,
                    runeToByteIndex(loc.X + 1, line))
        ELSE <<LF>>

\* calcHash: the bytes that are hashed, the lines joined by line feeds
calcHash(la) == Flat(la)

\* Buffer.Modified
Modified ==
    IF Settings.fastdirty THEN IsModified ELSE calcHash(lines) # origHash

\* the lines after the newest n groups of the stack are taken back
RECURSIVE UndoNewest(_, _, _)
UndoNewest(la, stack, n) ==
    IF n = 0 \/ Len(stack) = 0 THEN la
    ELSE UndoNewest(UndoGroup(la, stack[Len(stack)]), Upto(stack, Len(stack) - 1), n - 1)

\* how a save ends: the file is written, it cannot be opened, or the codec
\* of a buffer with a password fails
SaveOutcomes == {"ok", "openfail"} \cup (IF Password # "" THEN {"codecfail"} ELSE {})

\* Buffer.SaveAs: the buffer, the file and the flags
SaveAsBuffer(outcome) ==
    LET a       == IF Settings.rmtrailingws THEN trimLines(lines, 0) ELSE lines
        end     == End(a, Len(a))
        addNl   == Settings.eofnewline /\ RuneAt(a, Loc(end.X - 1, end.Y)) # <<LF>>
        b       == IF addNl THEN insert(a, end, <<LF>>) ELSE a
        size    == Len(Encode(b, fileformat))
    IN  /\ lines' = b
        /\ NumLines' = Len(b)
        /\ UndoStack' = IF addNl
                        THEN PushDelta(UndoStack,
                                       Delta("insert", <<LF>>, end, EndOfInsert(end, <<LF>>)),
                                       FALSE)
                        ELSE UndoStack
        /\ RedoStack' = IF addNl THEN RedoAfterEdit(RedoStack) ELSE RedoStack
        /\ open' = IF addNl THEN TRUE ELSE open
        /\ file' = IF outcome = "ok"
                   THEN [bytes |-> Encode(b, fileformat), encrypted |-> Password # ""]
                   ELSE IF outcome = "codecfail" THEN [bytes |-> <<>>, encrypted |-> FALSE]
                   ELSE file
        /\ Settings' = IF outcome = "ok" /\ ~Settings.fastdirty /\ size > LargeFileThreshold
                       THEN [Settings EXCEPT !.fastdirty = TRUE] ELSE Settings
        /\ origHash' = IF outcome = "ok" /\ ~Settings.fastdirty /\ size <= LargeFileThreshold
                       THEN calcHash(b) ELSE origHash
        /\ IsModified' = IF outcome = "ok" THEN FALSE
                         ELSE (IsModified \/ a # lines \/ addNl)
        /\ save' = [n |-> save.n + 1, op |-> "SaveAs", outcome |-> outcome,
                    err |-> outcome # "ok",
                    pre |-> lines, prefile |-> file, premodified |-> IsModified,
                    captured |-> IF outcome = "ok" THEN DataOf(b) ELSE save.captured,
                    groups |-> IF addNl THEN 1 ELSE 0]
        /\ last' = [Op("save") EXCEPT !.pre = lines]
        /\ run' = [run EXCEPT !.phase = "mixed"]
        /\ UNCHANGED Password

\* Buffer.SaveAs of a buffer that keeps no history (savecursor and saveundo
\* are off, Serialize returns at once); the modification time is followed in
\* SaveAsPersisted
SaveAs(outcome) ==
    /\ SaveAsBuffer(outcome)
    /\ UNCHANGED <<openVars, moreVars>>

\* Buffer.SaveAsWithSudo: Encode, then the file is written by tee
SaveAsWithSudo(outcome) ==
    /\ file' = IF outcome = "ok"
               THEN [bytes |-> Encode(lines, fileformat), encrypted |-> Password # ""]
               ELSE file
    /\ IsModified' = IF outcome = "ok" THEN FALSE ELSE IsModified
    /\ save' = [n |-> save.n + 1, op |-> "SaveAsWithSudo", outcome |-> outcome,
                err |-> outcome # "ok",
                pre |-> lines, prefile |-> file, premodified |-> IsModified,
                captured |-> IF outcome = "ok" THEN DataOf(lines) ELSE save.captured,
                groups |-> 0]
    /\ last' = [Op("save") EXCEPT !.pre = lines]
    /\ run' = [run EXCEPT !.phase = "mixed"]
    /\ UNCHANGED <<lines, NumLines, UndoStack, RedoStack, open, Settings, Password, origHash,
                   openVars, moreVars>>

DoSaveAs ==
    /\ save.n < MaxSaves
    /\ \E outcome \in SaveOutcomes : SaveAs(outcome)
    /\ UNCHANGED <<loadVars, runeVars>>

DoSaveAsWithSudo ==
    /\ save.n < MaxSaves
    /\ \E outcome \in SaveOutcomes : SaveAsWithSudo(outcome)
    /\ UNCHANGED <<loadVars, runeVars>>

\* a blank is typed somewhere: EventHandler.Insert
DoType ==
    /\ run.made < MaxEdits
    /\ \E pos \in ValidLocs(lines) : EHInsert(pos, <<32>>, FALSE)
    /\ UNCHANGED <<loadVars, runeVars, extVars>>

\* the files opened: 'a' and a blank, a blank line before 'a', the empty file
SaveStreams == { <<97, 32>>, <<32, LF, 97>>, <<>> }

\* a buffer opened by NewBuffer from a small file read to its end
InitSave ==
    /\ \E s \in SaveStreams :
          /\ lines = NewLineArray(Reader(s, EOF))
          /\ \E pw \in {"", "pw"} :
                /\ Password = pw
                /\ file = [bytes |-> s, encrypted |-> pw # ""]
    /\ NumLines = Len(lines)
    /\ IsModified = FALSE
    /\ last = Op("load")
    /\ \E ws \in BOOLEAN, nl \in BOOLEAN, fd \in BOOLEAN :
          Settings = [NoSettings EXCEPT !.rmtrailingws = ws, !.eofnewline = nl,
                                        !.fastdirty = fd]
    /\ origHash = IF Settings.fastdirty THEN <<>> ELSE calcHash(lines)
    /\ save = [NoSave EXCEPT !.captured = DataOf(lines)]
    /\ UndoStack = <<>> /\ RedoStack = <<>> /\ open = FALSE
    /\ run = [NoRun EXCEPT !.phase = "edit", !.base = DataOf(lines)]
    /\ LoadIdle /\ RuneIdle /\ OpenIdle /\ MoreIdle

NextSave == DoType \/ DoUndo \/ DoSaveAs \/ DoSaveAsWithSudo

SpecSave == InitSave /\ [][NextSave]_vars

----------------------------------------------------------------------------
(* Opening a buffer: NewBufferWithPassword of unnamed/part_001 ("new") and *)
(* of cmd/micro/buffer.go ("old"): the start position, the persisted       *)
(* history, a failing Decode                                              *)

\* the line and column numbers a caller asks for run from -1 to MaxPos
MaxPos == 3

\* len(b.Line(y)): the length in bytes, 0 past the last line
LineLen(la, y) == IF y >= Len(la) THEN 0 ELSE Len(la[y + 1].data)

\* the clamping of -startpos LINE,COL in cmd/micro/buffer.go
ClampOld(la, n, line, col) ==
    LET y0 == line - 1
        y  == IF y0 > n THEN n - 1 ELSE IF y0 < 0 THEN 0 ELSE y0
        x  == IF col > LineLen(la, y) THEN LineLen(la, y) ELSE IF col < 0 THEN 0 ELSE col
    IN  Loc(x, y)

\* the start of the cursor in cmd/micro/buffer.go: -startpos when it holds two
\* numbers, the first spot otherwise
StartOld(la, n, flag) ==
    IF flag.kind = "ok" THEN ClampOld(la, n, flag.line, flag.col) ELSE Loc(0, 0)

\* ParseCursorLocation(cursorPosition): the location and whether it failed;
\* the location is (0, 0) when it fails
ParseCursorLocation(pos) ==
    IF pos.kind = "ok" THEN [loc |-> Loc(pos.col, pos.line), err |-> FALSE]
    ELSE [loc |-> Loc(0, 0), err |-> TRUE]

\* GetBufferCursorLocation of unnamed/part_001
GetBufferCursorLocation(la, n, flag, pos) ==
    LET parsed  == ParseCursorLocation(pos)
        fromPos == flag.kind \in {"none", "bad"}
        lineNum == IF fromPos THEN parsed.loc.Y
                   ELSE IF flag.kind = "ok" THEN flag.line ELSE 0
        colNum  == IF fromPos THEN parsed.loc.X
                   ELSE IF flag.kind = "ok" THEN flag.col ELSE 0
        y0      == lineNum - 1
        y       == IF y0 > n - 1 THEN n - 1 ELSE IF y0 < 0 THEN 0 ELSE y0
        x       == IF colNum > LineLen(la, y) THEN LineLen(la, y)
                   ELSE IF colNum < 0 THEN 0 ELSE colNum
    IN  [loc |-> IF flag.kind # "none" \/ ~parsed.err THEN Loc(x, y) ELSE parsed.loc,
         err |-> parsed.err]

\* Cursor.Relocate: the location brought into the buffer
Relocate(la, n, loc) ==
    LET y == IF loc.Y < 0 THEN 0 ELSE IF loc.Y >= n THEN n - 1 ELSE loc.Y
        c == RuneCount(la[y + 1].data)
        x == IF loc.X < 0 THEN 0 ELSE IF loc.X > c THEN c ELSE loc.X
    IN  Loc(x, y)

\* what gob decodes from the history file: the snapshot, or the zero value of
\* SerializedBuffer when the file cannot be decoded
Decoded(history) ==
    IF history.kind = "ok"
    THEN [EventHandler |-> "restored", Cursor |-> history.Cursor, ModTime |-> history.ModTime]
    ELSE [EventHandler |-> "nil", Cursor |-> Loc(0, 0), ModTime |-> 0]

\* a reading of the history that takes the undo log whatever its time
LoadHistoryAnyTime(la, n, cur, modTime, history, settings) ==
    IF history.kind = "missing"
    THEN [Cursor |-> cur, EventHandler |-> "fresh", messages |-> 0, panic |-> FALSE]
    ELSE LET buffer == Decoded(history)
             take   == settings.saveundo
         IN  [Cursor |-> IF settings.savecursor THEN Relocate(la, n, buffer.Cursor) ELSE cur,
              EventHandler |-> IF take THEN buffer.EventHandler ELSE "fresh",
              messages |-> IF history.kind = "corrupt" THEN 1 ELSE 0,
              panic |-> take /\ buffer.EventHandler = "nil"]

\* a reading of the history that takes the cursor as it was stored
LoadHistoryRawCursor(la, n, cur, modTime, history, settings) ==
    IF history.kind = "missing"
    THEN [Cursor |-> cur, EventHandler |-> "fresh", messages |-> 0, panic |-> FALSE]
    ELSE LET buffer == Decoded(history)
             take   == settings.saveundo /\ modTime = buffer.ModTime
         IN  [Cursor |-> IF settings.savecursor THEN buffer.Cursor ELSE cur,
              EventHandler |-> IF take THEN buffer.EventHandler ELSE "fresh",
              messages |-> IF history.kind = "corrupt" THEN 1 ELSE 0,
              panic |-> take /\ buffer.EventHandler = "nil"]

\* the part of NewBufferWithPassword that reads the persisted history, for a
\* buffer with the cursor at cur
LoadHistory(la, n, cur, modTime, history, settings) ==
    IF history.kind = "missing"
    THEN [Cursor |-> cur, EventHandler |-> "fresh", messages |-> 0, panic |-> FALSE]
    ELSE LET buffer == Decoded(history)
             take   == settings.saveundo /\ modTime = buffer.ModTime
         IN  [Cursor |-> IF settings.savecursor THEN Relocate(la, n, buffer.Cursor) ELSE cur,
              EventHandler |-> IF take THEN buffer.EventHandler ELSE "fresh",
              messages |-> IF history.kind = "corrupt" THEN 1 ELSE 0,
              panic |-> take /\ buffer.EventHandler = "nil"]

\* NewBufferWithPassword after Decode, on the lines la
LoadBuffer(ver, la, flag, pos, modTime, history, settings) ==
    LET n       == Len(la)
        wanted  == IF ver = "new" THEN GetBufferCursorLocation(la, n, flag, pos)
                   ELSE [loc |-> StartOld(la, n, flag), err |-> flag.kind # "ok"]
        useHist == /\ settings.savecursor \/ settings.saveundo
                   /\ ver = "new" => (wanted.err /\ flag.kind = "none")
    IN  IF useHist
        THEN LoadHistory(la, n, wanted.loc, modTime, history, settings)
        ELSE [Cursor |-> wanted.loc, EventHandler |-> "fresh", messages |-> 0,
              panic |-> FALSE]

\* what is asked for: nothing, a line and a column, something that is no
\* number, or not two fields
Requests ==
    { NoRequest, [NoRequest EXCEPT !.kind = "bad"], [NoRequest EXCEPT !.kind = "short"] }
    \cup { [kind |-> "ok", line |-> l, col |-> c] : l \in -1..MaxPos, c \in -1..MaxPos }

\* the history files: none, one that cannot be decoded, and snapshots with a
\* cursor and the modification time 1 or 2
Histories ==
    { NoHistory, [NoHistory EXCEPT !.kind = "corrupt"] }
    \cup { [kind |-> "ok", Cursor |-> Loc(x, y), ModTime |-> t] :
              x \in {0, 2}, y \in {0, 1}, t \in {1, 2} }

\* the files opened: empty, U+00E9 alone, "ab" with its line end, and two
\* lines with U+00E9
OpenStreams == { <<>>, <<195, 169>>, <<97, 98, LF>>, <<97, LF, 195, 169, 97>> }

\* the text of the buffer returned when Decode fails: nothing in
\* unnamed/part_001, the error message in cmd/micro/buffer.go (one 'e' here)
PlaceholderText(ver) == IF ver = "new" THEN <<>> ELSE <<101>>

\* NewBufferWithPassword
NewBufferWithPassword(r) ==
    LET la  == IF env.decodeErr
               THEN NewLineArray(Reader(PlaceholderText(env.ver), EOF))
               ELSE NewLineArray(r)
        pos == IF env.decodeErr THEN NoRequest ELSE env.cursorPosition
        his == IF env.decodeErr THEN NoHistory ELSE env.history
        res == LoadBuffer(env.ver, la, env.flagStartPos, pos, ModTime, his, Settings)
    IN  /\ ~opened.done
        /\ lines' = la
        /\ NumLines' = Len(la)
        /\ IsModified' = FALSE
        /\ Cursor' = res.Cursor
        /\ EventHandler' = res.EventHandler
        /\ opened' = [done |-> TRUE,
                      messages |-> res.messages
                                   + (IF env.decodeErr /\ env.ver = "new" THEN 1 ELSE 0),
                      panic |-> res.panic,
                      placeholder |-> env.decodeErr,
                      requested |-> IF env.ver = "new"
                                    THEN GetBufferCursorLocation(la, Len(la), env.flagStartPos, pos).loc
                                    ELSE StartOld(la, Len(la), env.flagStartPos)]
        /\ last' = Op("load")
        /\ UNCHANGED <<ModTime, env>>

DoNewBufferWithPassword ==
    /\ \E s \in OpenStreams : NewBufferWithPassword(Reader(s, EOF))
    /\ UNCHANGED <<loadVars, runeVars, undoVars, saveVars, moreVars>>

\* before the call: the file on disk carries the modification time 1
InitOpen ==
    /\ BufIdle /\ LoadIdle /\ RuneIdle /\ UndoIdle
    /\ origHash = <<>> /\ file = NoFile /\ save = NoSave
    /\ \E sc \in BOOLEAN, su \in BOOLEAN :
          Settings = [NoSettings EXCEPT !.savecursor = sc, !.saveundo = su]
    /\ Password \in {"", "pw"}
    /\ Cursor = Loc(0, 0) /\ EventHandler = "fresh" /\ ModTime = 1
    /\ opened = NotOpened /\ MoreIdle
    /\ \E ver \in {"new", "old"}, flag \in Requests, pos \in Requests,
          history \in Histories, decodeErr \in BOOLEAN :
          /\ decodeErr => Password # ""
          /\ pos.kind \in {"none", "ok"}
          /\ ver = "old" => pos = NoRequest
          /\ (flag.kind = "ok" /\ pos.kind = "ok") => (flag.line = 1 /\ flag.col = 1)
          /\ env = [ver |-> ver, flagStartPos |-> flag, cursorPosition |-> pos,
                    history |-> history, decodeErr |-> decodeErr]

NextOpen == DoNewBufferWithPassword

SpecOpen == InitOpen /\ [][NextOpen]_vars

----------------------------------------------------------------------------
(* The cursors of a buffer: MergeCursors and UpdateCursors of              *)
(* unnamed/part_001 ("new") and of cmd/micro/buffer.go ("old")             *)

\* at most MaxCursors cursors
MaxCursors == 3

\* the loops of MergeCursors: dead holds the indexes set to nil so far, i is
\* zero-based, out is the slice being appended to
RECURSIVE mergeLoop(_, _, _, _)
mergeLoop(cs, dead, i, out) ==
    IF i >= Len(cs) THEN out
    ELSE IF (i + 1) \in dead THEN mergeLoop(cs, dead, i + 1, out)
    ELSE LET c1 == cs[i + 1]
             same == { j \in 1..Len(cs) : j \notin dead /\ j # i + 1 /\ cs[j].Loc = c1.Loc }
         IN  mergeLoop(cs, dead \cup same, i + 1, Append(out, c1))

\* c.Num = i for every cursor
Renumber(cs) == [i \in 1..Len(cs) |-> [cs[i] EXCEPT !.Num = i - 1]]

\* Buffer.MergeCursors
MergeCursors ==
    LET merged == mergeLoop(cursors, {}, 0, <<>>)
    IN  /\ cursors' = IF merge = "new" THEN Renumber(merged) ELSE merged
        /\ curCursor' = IF merge = "new" /\ curCursor >= Len(merged)
                        THEN Len(merged) - 1 ELSE curCursor
        /\ last' = Op("MergeCursors")
        /\ UNCHANGED merge

\* Buffer.UpdateCursors
UpdateCursors ==
    /\ cursors' = Renumber(cursors)
    /\ last' = Op("UpdateCursors")
    /\ UNCHANGED <<curCursor, merge>>

DoMergeCursors ==
    /\ MergeCursors
    /\ UNCHANGED <<lines, NumLines, IsModified, loadVars, runeVars, undoVars, saveVars,
                   openVars, brace, shell, store, info>>

DoUpdateCursors ==
    /\ UpdateCursors
    /\ UNCHANGED <<lines, NumLines, IsModified, loadVars, runeVars, undoVars, saveVars,
                   openVars, brace, shell, store, info>>

\* where the cursors stand
CursorLocs == { Loc(0, 0), Loc(1, 0), Loc(0, 1) }

\* one to MaxCursors cursors, numbered in their order, standing anywhere, one
\* of them the current one
InitCursors ==
    /\ lines = <<>> /\ NumLines = 0 /\ IsModified = FALSE /\ last = Op("none")
    /\ LoadIdle /\ RuneIdle /\ UndoIdle /\ SaveIdle /\ OpenIdle
    /\ brace = NoBrace /\ shell = NoShell /\ store = NoStore /\ info = NoInfo
    /\ merge \in {"new", "old"}
    /\ \E n \in 1..MaxCursors : \E locs \in [1..n -> CursorLocs] :
          /\ cursors = [i \in 1..n |-> [Loc |-> locs[i], Num |-> i - 1, ptr |-> i]]
          /\ curCursor \in 0..(n - 1)

NextCursors == DoMergeCursors \/ DoUpdateCursors

SpecCursors == InitCursors /\ [][NextCursors]_vars

----------------------------------------------------------------------------
(* FindMatchingBrace *)

\* the files searched hold at most MaxBrace runes
MaxBrace == 4

\* U+FFFD as a rune, written as its bytes
RuneError == <<239, 191, 189>>

\* []rune(string(data)): the runes of a line, each written as its bytes, a
\* byte that starts no rune as U+FFFD
RECURSIVE toRunes(_)
toRunes(txt) ==
    IF Len(txt) = 0 THEN <<>>
    ELSE LET size == DecodeRuneSize(txt)
             r    == IF size = 1 /\ txt[1] >= 128 THEN RuneError ELSE Upto(txt, size)
         IN  <<r>> \o toRunes(From(txt, size))

\* Buffer.LineRunes
LineRunes(la, n) == IF n >= Len(la) THEN <<>> ELSE toRunes(la[n + 1].data)

bracePairs == { <<<<40>>, <<41>>>>, <<<<123>>, <<125>>>>, <<<<91>>, <<93>>>> }

\* the loops of FindMatchingBrace from an opening bracket: the rune at (x, y)
\* is looked at next, i is the count so far
RECURSIVE braceForward(_, _, _, _, _, _)
braceForward(la, braceType, start, y, x, i) ==
    IF y >= Len(la) THEN start
    ELSE LET l == LineRunes(la, y)
         IN  IF x >= Len(l) THEN braceForward(la, braceType, start, y + 1, 0, i)
             ELSE IF l[x + 1] = braceType[1]
                  THEN braceForward(la, braceType, start, y, x + 1, i + 1)
             ELSE IF l[x + 1] = braceType[2]
                  THEN IF i - 1 = 0 THEN Loc(x, y)
                       ELSE braceForward(la, braceType, start, y, x + 1, i - 1)
             ELSE braceForward(la, braceType, start, y, x + 1, i)

\* a search backward that stops at the first opening bracket it meets
RECURSIVE braceBackwardNoCount(_, _, _, _, _, _)
braceBackwardNoCount(la, braceType, start, y, x, i) ==
    IF y < 0 THEN start
    ELSE LET l == toRunes(la[y + 1].data)
         IN  IF x < 0
             THEN IF y = 0 THEN start
                  ELSE braceBackwardNoCount(la, braceType, start, y - 1,
                                            Len(toRunes(la[y].data)) - 1, i)
             ELSE IF l[x + 1] = braceType[1] THEN Loc(x, y)
             ELSE braceBackwardNoCount(la, braceType, start, y, x - 1, i)

\* the loops of FindMatchingBrace from a closing bracket
RECURSIVE braceBackward(_, _, _, _, _, _)
braceBackward(la, braceType, start, y, x, i) ==
    IF y < 0 THEN start
    ELSE LET l == toRunes(la[y + 1].data)
         IN  IF x < 0
             THEN IF y = 0 THEN start
                  ELSE braceBackward(la, braceType, start, y - 1,
                                     Len(toRunes(la[y].data)) - 1, i)
             ELSE IF l[x + 1] = braceType[1]
                  THEN IF i - 1 = 0 THEN Loc(x, y)
                       ELSE braceBackward(la, braceType, start, y, x - 1, i - 1)
             ELSE IF l[x + 1] = braceType[2]
                  THEN braceBackward(la, braceType, start, y, x - 1, i + 1)
             ELSE braceBackward(la, braceType, start, y, x - 1, i)

\* Buffer.FindMatchingBrace: the location returned, or the panic of
\* curLine[start.X] at the end of a line
FindMatchingBrace(la, braceType, start) ==
    LET curLine == LineRunes(la, start.Y)
    IN  IF start.X >= Len(curLine) THEN [loc |-> start, panic |-> TRUE]
        ELSE LET startChar == curLine[start.X + 1]
             IN  [loc |-> IF startChar = braceType[1]
                          THEN braceForward(la, braceType, start, start.Y, start.X, 0)
                          ELSE IF startChar = braceType[2]
                          THEN braceBackward(la, braceType, start, start.Y, start.X, 0)
                          ELSE start,
                  panic |-> FALSE]

DoFindMatchingBrace ==
    /\ ~brace.done
    /\ \E braceType \in bracePairs, start \in ValidLocs(lines) :
          LET found == FindMatchingBrace(lines, braceType, start)
          IN  brace' = [done |-> TRUE, braceType |-> braceType, start |-> start,
                        result |-> found.loc, panic |-> found.panic]
    /\ last' = Op("FindMatchingBrace")
    /\ UNCHANGED <<lines, NumLines, IsModified, loadVars, runeVars, undoVars, saveVars,
                   openVars, cursorVars, shell, store, info>>

\* what the files are made of: ( ) { a line end and U+00E9
BraceRunes == { <<40>>, <<41>>, <<123>>, <<LF>>, <<195, 169>> }

InitBrace ==
    /\ \E rs \in SeqsUpTo(BraceRunes, MaxBrace) :
          lines = NewLineArray(Reader(Concat(rs), EOF))
    /\ NumLines = Len(lines)
    /\ IsModified = FALSE /\ last = Op("none")
    /\ LoadIdle /\ RuneIdle /\ UndoIdle /\ ExtIdle

NextBrace == DoFindMatchingBrace

SpecBrace == InitBrace /\ [][NextBrace]_vars

----------------------------------------------------------------------------
(* Insert, Remove and Split over lines that carry highlight states and     *)
(* matches                                                                 *)

\* the highlight states and the matches the lines carry at the start, one of
\* its own for every line
StateTags == <<"s0", "s1", "s2", "s3", "s4", "s5">>
MatchTags == <<"m0", "m1", "m2", "m3", "m4", "m5">>

\* la with the state and the match of every line set
Highlighted(la) ==
    [i \in 1..Len(la) |-> Line(la[i].data, StateTags[i], MatchTags[i], FALSE)]

\* at most MaxMetaEdits edits are made to a highlighted buffer
MaxMetaEdits == 2

\* the files the highlighted buffers are loaded from: one to four lines, with
\* U+00E9 and without
MetaStreams ==
    { <<>>, <<97>>, <<195, 169>>, <<97, 97>>, <<97, LF>>, <<LF, 97>>, <<195, 169, 97>>,
      <<97, 195, 169>>, <<97, LF, 97>>, <<LF, 195, 169>>, <<LF, LF>>, <<97, LF, LF>>,
      <<LF, LF, LF>> }

InitMeta ==
    /\ \E s \in MetaStreams : lines = Highlighted(NewLineArray(Reader(s, EOF)))
    /\ NumLines = Len(lines)
    /\ IsModified = FALSE
    /\ last = Op("load")
    /\ LoadIdle /\ RuneIdle /\ UndoIdle /\ ExtIdle

\* one more edit made
Counted ==
    /\ run.made < MaxMetaEdits
    /\ run' = [run EXCEPT !.made = @ + 1]
    /\ UNCHANGED <<UndoStack, RedoStack, open, loadVars, runeVars, extVars>>

DoInsertHighlighted ==
    /\ \E pos \in ValidLocs(lines), value \in InsertTexts : Insert(pos, value)
    /\ Counted

DoRemoveHighlighted ==
    /\ \E start \in ValidLocs(lines), end \in ValidLocs(lines) :
          LocLE(start, end) /\ Remove(start, end)
    /\ Counted

DoSplitHighlighted ==
    /\ \E y \in 0..(Len(lines) - 1) :
          \E x \in 0..Len(lines[y + 1].data) : SplitAt(Loc(x, y))
    /\ NumLines' = Len(lines')
    /\ UNCHANGED IsModified
    /\ Counted

NextMeta == DoInsertHighlighted \/ DoRemoveHighlighted \/ DoSplitHighlighted

SpecMeta == InitMeta /\ [][NextMeta]_vars

----------------------------------------------------------------------------
(* The highlight pass. The highlight package is not among the sources: the *)
(* pass follows the description of the HighlightStateCache, over a lexer   *)
(* with two states in which the byte Quote opens and closes a string       *)

Quote == 97

\* the lexer state after a line, from the state before it: Nil outside a
\* string, "string" inside
RECURSIVE LexLine(_, _)
LexLine(data, in) ==
    IF Len(data) = 0 THEN in
    ELSE LexLine(Tail(data), IF Head(data) = Quote
                             THEN (IF in = Nil THEN "string" ELSE Nil)
                             ELSE in)

\* the matches of a line: they tell the state the line starts in and the
\* quotes it holds
RECURSIVE Quotes(_)
Quotes(data) ==
    IF Len(data) = 0 THEN 0 ELSE (IF Head(data) = Quote THEN 1 ELSE 0) + Quotes(Tail(data))

MatchNames ==
    [plain  |-> <<"p0", "p1", "p2", "p3", "p4", "p5", "p6">>,
     string |-> <<"s0", "s1", "s2", "s3", "s4", "s5", "s6">>]

MatchOf(data, in) ==
    IF in = Nil THEN MatchNames.plain[Quotes(data) + 1]
    ELSE MatchNames.string[Quotes(data) + 1]

\* the state the line y starts in, y zero-based
StateBefore(la, y) == IF y = 0 THEN Nil ELSE la[y].state

\* the forward pass from line y: the line is recomputed, and the pass goes on
\* to the next line when the new state differs from the cached one or the
\* next line is marked
RECURSIVE passFrom(_, _)
passFrom(la, y) ==
    IF y >= Len(la) THEN la
    ELSE LET in    == StateBefore(la, y)
             new   == LexLine(la[y + 1].data, in)
             old   == la[y + 1].state
             done  == [la EXCEPT ![y + 1] = Line(la[y + 1].data, new, MatchOf(la[y + 1].data, in), FALSE)]
             goOn  == new # old \/ (y + 1 < Len(la) /\ la[y + 2].rehighlight)
         IN  IF goOn THEN passFrom(done, y + 1) ELSE done

\* the lines marked for rehighlight
Dirty(la) == { y \in 0..(Len(la) - 1) : la[y + 1].rehighlight }

FirstDirty(la) == CHOOSE y \in Dirty(la) : \A z \in Dirty(la) : y <= z

\* the lazy pass, started at the first marked line again until no line is
\* marked
RECURSIVE HighlightPass(_)
HighlightPass(la) ==
    IF Dirty(la) = {} THEN la ELSE HighlightPass(passFrom(la, FirstDirty(la)))

\* the rehighlight of the whole buffer from line 0
RECURSIVE HighlightStates(_, _)
HighlightStates(la, y) ==
    IF y >= Len(la) THEN la
    ELSE LET in == StateBefore(la, y)
         IN  HighlightStates(
                 [la EXCEPT ![y + 1] = Line(la[y + 1].data, LexLine(la[y + 1].data, in),
                                            MatchOf(la[y + 1].data, in), FALSE)],
                 y + 1)

DoHighlightPass ==
    /\ last.op # "highlight"
    /\ lines' = HighlightPass(lines)
    /\ last' = [Op("highlight") EXCEPT !.pre = lines]
    /\ UNCHANGED <<NumLines, IsModified, loadVars, runeVars, undoVars, extVars>>

\* a buffer highlighted as a whole when its highlighter is made
InitLexed ==
    /\ \E s \in MetaStreams : lines = HighlightStates(NewLineArray(Reader(s, EOF)), 0)
    /\ NumLines = Len(lines)
    /\ IsModified = FALSE
    /\ last = Op("load")
    /\ LoadIdle /\ RuneIdle /\ UndoIdle /\ ExtIdle

NextLexed == DoInsertHighlighted \/ DoRemoveHighlighted \/ DoHighlightPass

SpecLexed == InitLexed /\ [][NextLexed]_vars

----------------------------------------------------------------------------
(* Shell commands and the sudo save: the main thread, the goroutine that
   runs a command in the background, the goroutine that traps Ctrl-C, the
   child process and the signal channel.  The main thread is the only one
   that edits; it cannot edit while it waits for a child in cmd.Wait. *)

\* lines of output told apart by HandleShellCommand: fewer than 3, or more
MaxOutLines == 3

\* interrupts the user sends during one command
MaxInterrupts == 2

\* what the main thread types while a command runs
ShellTexts == { <<97>> }

ShellStreams == { <<>>, <<97, LF>> }

InitShell ==
    /\ \E s \in ShellStreams : lines = NewLineArray(Reader(s, EOF))
    /\ NumLines = Len(lines)
    /\ IsModified = FALSE
    /\ last = Op("load")
    /\ LoadIdle /\ RuneIdle /\ UndoIdle /\ ExtIdle

\* nothing but the line store, its flag and the command under way changes
ShellFrame ==
    UNCHANGED <<loadVars, runeVars, undoVars, saveVars, openVars, cursorVars, brace, store, info>>

\* the editor runs: no panic has ended it
Alive == ~shell.crashed

\* the main thread is in its event loop, not inside cmd.Wait
MainFree == shell.pc \in {"idle", "done"}

\* the background goroutine has been started and has not ended
GoRunning == shell.go \in {"spawned", "exited", "messaged"}

\* the main thread edits the buffer from its event loop
DoEditMain ==
    /\ Alive /\ MainFree
    /\ \E pos \in ValidLocs(lines), value \in ShellTexts : Insert(pos, value)
    /\ shell' = [shell EXCEPT !.by = "main", !.raced = @ \/ GoRunning]
    /\ ShellFrame

\* Run, HandleShellCommand(input, false, true): the message, then the goroutine
Run ==
    /\ Alive /\ MainFree /\ shell.go = "none"
    /\ shell' = [shell EXCEPT !.go = "spawned", !.message = "Running...", !.by = "main"]
    /\ UNCHANGED <<bufVars, last>>
    /\ ShellFrame

\* the goroutine: RunShellCommand(input) has returned the output and err
GoRunShellCommand ==
    /\ Alive /\ shell.go = "spawned"
    /\ \E n \in 1..MaxOutLines, e \in BOOLEAN :
          shell' = [shell EXCEPT !.go = "exited", !.outLines = n, !.err = e,
                                 !.by = "goroutine"]
    /\ UNCHANGED <<bufVars, last>>
    /\ ShellFrame

\* the message the goroutine hands back
OutputMessage(n, e) ==
    IF n < 3
    THEN IF ~e THEN "exited without error" ELSE "exited with error"
    ELSE "output"

\* a goroutine that put the output into the buffer itself
HandBackByInsert ==
    /\ shell' = [shell EXCEPT !.go = "messaged",
                              !.message = OutputMessage(shell.outLines, shell.err),
                              !.by = "goroutine"]
    /\ lines' = insert(lines, Start, <<97>>)
    /\ NumLines' = Len(lines')
    /\ UNCHANGED <<IsModified, last>>

\* the goroutine hands the output back through messenger.Message and does
\* nothing else with it
HandBack ==
    /\ shell' = [shell EXCEPT !.go = "messaged",
                              !.message = OutputMessage(shell.outLines, shell.err),
                              !.by = "goroutine"]
    /\ UNCHANGED <<bufVars, last>>

GoMessage ==
    /\ Alive /\ shell.go = "exited"
    /\ HandBack
    /\ ShellFrame

\* the goroutine ends with RedrawAll(), which draws and edits nothing
GoRedrawAll ==
    /\ Alive /\ shell.go = "messaged"
    /\ shell' = [shell EXCEPT !.go = "done", !.by = "goroutine"]
    /\ UNCHANGED <<bufVars, last>>
    /\ ShellFrame

\* HandleShellCommand(input, true, _) and SaveAsWithSudo up to cmd.Start():
\* exec.Command, signal.Notify(c, os.Interrupt) and the goroutine that ranges
\* over c
Trap(mode) ==
    /\ Alive /\ shell.pc = "idle" /\ shell.mode = "none"
    /\ shell' = [shell EXCEPT !.mode = mode, !.pc = "trapped", !.by = "main"]
    /\ UNCHANGED <<bufVars, last>>
    /\ ShellFrame

DoTrap == \E mode \in {"terminal", "sudo"} : Trap(mode)

\* cmd.Start(): cmd.Process is set when the child was started and stays nil
\* when it was not; the error is dropped
cmdStart ==
    /\ Alive /\ shell.pc = "trapped"
    /\ \E ok \in BOOLEAN :
          shell' = [shell EXCEPT !.pc = "started", !.started = ok,
                                 !.Process = IF ok THEN "running" ELSE "nil",
                                 !.by = "main"]
    /\ UNCHANGED <<bufVars, last>>
    /\ ShellFrame

\* the child ends by itself
ChildExits ==
    /\ Alive /\ shell.Process = "running"
    /\ shell' = [shell EXCEPT !.Process = "exited", !.by = "child"]
    /\ UNCHANGED <<bufVars, last>>
    /\ ShellFrame

\* cmd.Wait(): returns at once with an error when the child never started,
\* and when the child has ended otherwise
cmdWait ==
    /\ Alive /\ shell.pc = "started"
    /\ ~shell.started \/ shell.Process \in {"exited", "killed"}
    /\ shell' = [shell EXCEPT !.pc = "waited",
                              !.waitErr = ~shell.started \/ shell.Process = "killed",
                              !.by = "main"]
    /\ UNCHANGED <<bufVars, last>>
    /\ ShellFrame

\* after cmd.Wait(): TermMessage and InitScreen for a shell command; for a sudo
\* save, IsModified = false when tee ended without error
Finish ==
    /\ Alive /\ shell.pc = "waited"
    /\ shell' = [shell EXCEPT !.pc = "done", !.by = "main"]
    /\ IsModified' = IF shell.mode = "sudo" /\ ~shell.waitErr THEN FALSE ELSE IsModified
    /\ UNCHANGED <<lines, NumLines, last>>
    /\ ShellFrame

\* the signal channel is registered from signal.Notify on and never unregistered
TrapInstalled == shell.pc # "idle"

\* Ctrl-C: the signal is put into c, which holds one signal; Notify drops it
\* when c is full
Interrupt ==
    /\ Alive /\ TrapInstalled
    /\ shell.interrupts < MaxInterrupts
    /\ shell' = [shell EXCEPT !.c = 1, !.interrupts = @ + 1, !.by = "user"]
    /\ UNCHANGED <<bufVars, last>>
    /\ ShellFrame

\* what the trap goroutine can read in cmd.Process: the main thread writes the
\* field in cmd.Start() with nothing ordering the write before the read
ProcessSeen == IF shell.Process = "nil" THEN {"nil"} ELSE {"nil", shell.Process}

\* one turn of "for range c { cmd.Process.Kill() }": Kill on a nil Process
\* is a nil pointer dereference, which ends the editor
TrapKill ==
    /\ Alive /\ shell.c = 1
    /\ \E seen \in ProcessSeen :
          shell' = [shell EXCEPT !.c = 0,
                                 !.crashed = (seen = "nil"),
                                 !.Process = IF seen = "running" THEN "killed" ELSE @,
                                 !.by = "trap"]
    /\ UNCHANGED <<bufVars, last>>
    /\ ShellFrame

NextShell ==
    \/ DoEditMain
    \/ Run
    \/ GoRunShellCommand
    \/ GoMessage
    \/ GoRedrawAll
    \/ DoTrap
    \/ cmdStart
    \/ ChildExits
    \/ cmdWait
    \/ Finish
    \/ Interrupt
    \/ TrapKill

SpecShell == InitShell /\ [][NextShell]_vars

----------------------------------------------------------------------------
(* The persisted history: SaveAs and Serialize write the snapshot          *)
(* (EventHandler, Cursor, ModTime) to configDir/buffers, and               *)
(* NewBufferWithPassword reads it when the file is opened again.  Both     *)
(* unnamed/part_001 ("new") and cmd/micro/buffer.go ("old") are followed.  *)
(* The file is changed by the editor only.                                 *)

\* edits made before the file is opened again
MaxPersistEdits == 1

\* the files opened: 'a', and two lines
PersistStreams == { <<97>>, <<97, LF, 97>> }

\* the buffer may still be persisted or opened again
Persisting == store.phase \in {"open", "saved", "serialized"}

\* what overwriteFile puts around the bytes it is given: nothing for a buffer
\* without a password, an OpenPGP message for a buffer with one; Serialize of
\* cmd/micro/buffer.go writes with os.Create and gob only
SnapshotFormat(ver, password) ==
    IF ver = "new" /\ password # "" THEN "pgp" ELSE "gob"

\* Buffer.Serialize: the snapshot written, or the one there was when neither
\* savecursor nor saveundo is on
Serialize(ver, password, settings, undo, redo, cur, modTime, snapshot) ==
    IF ~settings.savecursor /\ ~settings.saveundo THEN snapshot
    ELSE [format |-> SnapshotFormat(ver, password), UndoStack |-> undo, RedoStack |-> redo,
          Cursor |-> cur, ModTime |-> modTime]

\* what gob.NewDecoder(file).Decode finds in the snapshot file: the load path
\* reads the file as it is, and an OpenPGP message is no gob stream
GobRead(snapshot) ==
    [kind |-> IF snapshot.format = "none" THEN "missing"
              ELSE IF snapshot.format = "gob" THEN "ok" ELSE "corrupt",
     Cursor |-> snapshot.Cursor, ModTime |-> snapshot.ModTime]

\* what the buffer holds when it is persisted
Held(undo, redo) == [UndoStack |-> undo, RedoStack |-> redo, Cursor |-> Cursor]

\* Buffer.SaveAs with its last steps.  In unnamed/part_001 the modification
\* time is read in a deferred function, which runs after the operand of
\* "return b.Serialize()"; in cmd/micro/buffer.go it is read before Serialize.
SaveAsPersisted(outcome) ==
    LET wrote == outcome # "openfail"
        mtime == IF wrote THEN store.mtime + 1 ELSE store.mtime
        atSerialize == IF env.ver = "new" THEN ModTime ELSE mtime
    IN  /\ SaveAsBuffer(outcome)
        /\ ModTime' = mtime
        /\ store' = IF outcome = "ok"
                    THEN [mtime |-> mtime,
                          snapshot |-> Serialize(env.ver, Password, Settings, UndoStack',
                                                 RedoStack', Cursor, atSerialize,
                                                 store.snapshot),
                          phase |-> "saved", via |-> "SaveAs",
                          saved |-> Held(UndoStack', RedoStack')]
                    ELSE [store EXCEPT !.mtime = mtime, !.phase = "open"]
        /\ UNCHANGED <<Cursor, EventHandler, env, opened, cursorVars, brace, shell, info>>

DoSaveAsPersisted ==
    /\ Persisting
    /\ save.n < MaxSaves
    /\ \E outcome \in {"ok", "openfail"} : SaveAsPersisted(outcome)
    /\ UNCHANGED <<loadVars, runeVars>>

\* Buffer.Serialize called by itself, as SaveAsWithSudo and the editor's exit do
DoSerialize ==
    /\ Persisting /\ store.phase # "serialized"
    /\ store' = [store EXCEPT
                    !.snapshot = Serialize(env.ver, Password, Settings, UndoStack, RedoStack,
                                           Cursor, ModTime, store.snapshot),
                    !.phase = "serialized", !.via = "Serialize",
                    !.saved = Held(UndoStack, RedoStack)]
    /\ UNCHANGED <<bufVars, last, loadVars, runeVars, undoVars, saveVars, openVars,
                   cursorVars, brace, shell, info>>

\* a blank is typed somewhere
DoTypePersisting ==
    /\ Persisting
    /\ run.made < MaxPersistEdits
    /\ \E pos \in ValidLocs(lines) : EHInsert(pos, <<32>>, FALSE)
    /\ store' = [store EXCEPT !.phase = "open"]
    /\ UNCHANGED <<loadVars, runeVars, saveVars, openVars, cursorVars, brace, shell, info>>

\* the cursor is moved somewhere else
DoMoveCursor ==
    /\ Persisting
    /\ \E loc \in ValidLocs(lines) : loc # Cursor /\ Cursor' = loc
    /\ store' = [store EXCEPT !.phase = "open"]
    /\ UNCHANGED <<bufVars, last, loadVars, runeVars, undoVars, saveVars,
                   EventHandler, ModTime, env, opened, cursorVars, brace, shell, info>>

\* the file is opened again with the same password and no position asked for:
\* NewBufferWithPassword on the bytes on disk, with the snapshot on disk
Reopen ==
    LET la  == NewLineArray(Reader(file.bytes, EOF))
        res == LoadBuffer(env.ver, la, NoRequest, NoRequest, store.mtime,
                          GobRead(store.snapshot), Settings)
        restored == res.EventHandler = "restored"
    IN  /\ store.phase \in {"saved", "serialized"}
        /\ lines' = la
        /\ NumLines' = Len(la)
        /\ IsModified' = FALSE
        /\ ModTime' = store.mtime
        /\ Cursor' = res.Cursor
        /\ EventHandler' = res.EventHandler
        /\ UndoStack' = IF restored THEN store.snapshot.UndoStack ELSE <<>>
        /\ RedoStack' = IF restored THEN store.snapshot.RedoStack ELSE <<>>
        /\ open' = FALSE
        /\ opened' = [done |-> TRUE, messages |-> res.messages, panic |-> res.panic,
                      placeholder |-> FALSE,
                      requested |-> IF env.ver = "new"
                                    THEN GetBufferCursorLocation(la, Len(la), NoRequest,
                                                                 NoRequest).loc
                                    ELSE StartOld(la, Len(la), NoRequest)]
        /\ store' = [store EXCEPT !.phase = "reopened"]
        /\ last' = Op("load")
        /\ UNCHANGED <<run, env, loadVars, runeVars, saveVars, cursorVars, brace, shell, info>>

\* a buffer opened from a small file whose modification time is 1
InitPersist ==
    /\ \E s \in PersistStreams :
          /\ lines = NewLineArray(Reader(s, EOF))
          /\ \E pw \in {"", "pw"} :
                /\ Password = pw
                /\ file = [bytes |-> s, encrypted |-> pw # ""]
    /\ NumLines = Len(lines)
    /\ IsModified = FALSE
    /\ last = Op("load")
    /\ \E nl \in BOOLEAN, sc \in BOOLEAN, su \in BOOLEAN :
          Settings = [NoSettings EXCEPT !.eofnewline = nl, !.fastdirty = TRUE,
                                        !.savecursor = sc, !.saveundo = su]
    /\ origHash = <<>>
    /\ save = [NoSave EXCEPT !.captured = DataOf(lines)]
    /\ UndoStack = <<>> /\ RedoStack = <<>> /\ open = FALSE
    /\ run = [NoRun EXCEPT !.phase = "edit", !.base = DataOf(lines)]
    /\ Cursor = Loc(0, 0) /\ EventHandler = "fresh" /\ ModTime = 1
    /\ \E ver \in {"new", "old"} : env = [NoEnv EXCEPT !.ver = ver]
    /\ opened = NotOpened
    /\ store = [NoStore EXCEPT !.mtime = 1, !.phase = "open"]
    /\ cursors = <<>> /\ curCursor = 0 /\ merge = "none" /\ brace = NoBrace
    /\ shell = NoShell /\ info = NoInfo
    /\ LoadIdle /\ RuneIdle

NextPersist ==
    \/ DoTypePersisting
    \/ DoMoveCursor
    \/ DoSaveAsPersisted
    \/ DoSerialize
    \/ Reopen

SpecPersist == InitPersist /\ [][NextPersist]_vars

----------------------------------------------------------------------------
(* SaveAs with the eofnewline option on *)

\* the files opened: empty, without and with a last line feed, ending in a
\* rune of two bytes, ending in a blank
EofStreams == { <<>>, <<97>>, <<97, LF>>, <<195, 169>>, <<32, LF, 97, 32>> }

InitEof ==
    /\ \E s \in EofStreams :
          /\ lines = NewLineArray(Reader(s, EOF))
          /\ \E pw \in {"", "pw"} :
                /\ Password = pw
                /\ file = [bytes |-> s, encrypted |-> pw # ""]
    /\ NumLines = Len(lines)
    /\ IsModified = FALSE
    /\ last = Op("load")
    /\ \E ws \in BOOLEAN, fd \in BOOLEAN :
          Settings = [NoSettings EXCEPT !.rmtrailingws = ws, !.eofnewline = TRUE,
                                        !.fastdirty = fd]
    /\ origHash = IF Settings.fastdirty THEN <<>> ELSE calcHash(lines)
    /\ save = [NoSave EXCEPT !.captured = DataOf(lines)]
    /\ UndoStack = <<>> /\ RedoStack = <<>> /\ open = FALSE
    /\ run = [NoRun EXCEPT !.phase = "edit", !.base = DataOf(lines)]
    /\ LoadIdle /\ RuneIdle /\ OpenIdle /\ MoreIdle

NextEof == DoType \/ DoSaveAs

SpecEof == InitEof /\ [][NextEof]_vars

----------------------------------------------------------------------------
(* Buffer.MoveLinesUp and Buffer.MoveLinesDown: an Insert of a copy of the  *)
(* line and a Remove of the line, both through the EventHandler            *)

\* calls of MoveLinesUp and MoveLinesDown in a row
MaxMoves == 2

\* where MoveLinesUp inserts the copy of line start-1, and the text it inserts
MoveUpAt(la, start, end) ==
    IF end = Len(la) THEN Loc(RuneCount(la[end].data), end - 1) ELSE Loc(0, end)

MoveUpText(la, start, end) ==
    IF end = Len(la) THEN <<LF>> \o la[start].data ELSE la[start].data \o <<LF>>

\* the guard of MoveLinesUp: 0 < start < end <= len(b.lines)
MoveUpGuard(la, start, end) == ~(start < 1 \/ start >= end \/ end > Len(la))

\* the guard of MoveLinesDown: 0 <= start < end < len(b.lines) - 1
MoveDownGuard(la, start, end) == ~(start < 0 \/ start >= end \/ end >= Len(la) - 1)

\* Buffer.MoveLinesUp on the lines
MoveLinesUp(la, start, end) ==
    IF ~MoveUpGuard(la, start, end) THEN la
    ELSE remove(insert(la, MoveUpAt(la, start, end), MoveUpText(la, start, end)),
                Loc(0, start - 1), Loc(0, start)).la

\* a MoveLinesDown without "end++": the Remove takes the line above
MoveLinesDownNoIncrement(la, start, end) ==
    IF ~MoveDownGuard(la, start, end) THEN la
    ELSE remove(insert(la, Loc(0, start), la[end + 1].data \o <<LF>>),
                Loc(0, end), Loc(0, end + 1)).la

\* Buffer.MoveLinesDown on the lines
MoveLinesDown(la, start, end) ==
    IF ~MoveDownGuard(la, start, end) THEN la
    ELSE remove(insert(la, Loc(0, start), la[end + 1].data \o <<LF>>),
                Loc(0, end + 1), Loc(0, end + 2)).la

\* the undo log after the Insert of text at pos and the Remove from a to b
MovedLog(stack, pos, text, a, b) ==
    PushDelta(PushDelta(stack, Delta("insert", text, pos, EndOfInsert(pos, text)), FALSE),
              Delta("remove", text, a, b), FALSE)

\* what a move leaves alone
MoveFrame == UNCHANGED <<loadVars, runeVars, extVars>>

DoMoveLinesUp ==
    /\ run.made < MaxMoves
    /\ \E start \in -1..(Len(lines) + 1), end \in -1..(Len(lines) + 1) :
          LET ok == MoveUpGuard(lines, start, end)
          IN  /\ lines' = MoveLinesUp(lines, start, end)
              /\ NumLines' = Len(lines')
              /\ IsModified' = (IsModified \/ ok)
              /\ UndoStack' = IF ok
                              THEN MovedLog(UndoStack, MoveUpAt(lines, start, end),
                                            MoveUpText(lines, start, end),
                                            Loc(0, start - 1), Loc(0, start))
                              ELSE UndoStack
              /\ RedoStack' = IF ok THEN RedoAfterEdit(RedoStack) ELSE RedoStack
              /\ open' = (open \/ ok)
              /\ last' = [Op("MoveLinesUp") EXCEPT !.pos = Loc(start, end), !.pre = lines,
                                                   !.inv = ok]
    /\ run' = [run EXCEPT !.made = @ + 1]
    /\ MoveFrame

DoMoveLinesDown ==
    /\ run.made < MaxMoves
    /\ \E start \in -1..(Len(lines) + 1), end \in -1..(Len(lines) + 1) :
          LET ok   == MoveDownGuard(lines, start, end)
              text == IF ok THEN lines[end + 1].data \o <<LF>> ELSE <<>>
          IN  /\ lines' = MoveLinesDown(lines, start, end)
              /\ NumLines' = Len(lines')
              /\ IsModified' = (IsModified \/ ok)
              /\ UndoStack' = IF ok
                              THEN MovedLog(UndoStack, Loc(0, start), text,
                                            Loc(0, end + 1), Loc(0, end + 2))
                              ELSE UndoStack
              /\ RedoStack' = IF ok THEN RedoAfterEdit(RedoStack) ELSE RedoStack
              /\ open' = (open \/ ok)
              /\ last' = [Op("MoveLinesDown") EXCEPT !.pos = Loc(start, end), !.pre = lines,
                                                     !.inv = ok]
    /\ run' = [run EXCEPT !.made = @ + 1]
    /\ MoveFrame

\* the files opened: four lines that differ, one with a rune of two bytes and
\* an empty line, one with bytes that are no UTF-8, one ending in a line
\* feed, one line
MoveStreams ==
    { <<97, LF, 98, LF, 99, LF, 100>>, <<195, 169, LF, 97, LF, LF, 98>>,
      <<195, LF, 97, LF, 169>>, <<97, LF, 98, LF>>, <<97>> }

InitMove ==
    /\ \E s \in MoveStreams : lines = NewLineArray(Reader(s, EOF))
    /\ NumLines = Len(lines)
    /\ IsModified = FALSE
    /\ last = Op("load")
    /\ LoadIdle /\ RuneIdle /\ UndoIdle /\ ExtIdle

NextMove == DoMoveLinesUp \/ DoMoveLinesDown

SpecMove == InitMove /\ [][NextMove]_vars

----------------------------------------------------------------------------
(* Replace with the -a flag: the closure replaceAll of command.go.  A search *)
(* text is a rune, or a rune followed by "+"; regexp.FindAllIndex is        *)
(* computed for these two forms.  runePos, Count and MultipleReplace are    *)
(* not among the sources: runePos and Count count runes, MultipleReplace    *)
(* applies the deltas in the order given, each as a Remove and an Insert.   *)

\* calls of Replace in a row
MaxReplaces == 1

\* the byte "+"
Plus == 43

\* the search text repeats its rune
IsPlus(search) == Len(search) > 1 /\ search[Len(search)] = Plus

\* the rune the search text names
RuneOf(search) == IF IsPlus(search) THEN Upto(search, Len(search) - 1) ELSE search

\* data has the bytes sym from the zero-based offset i on
HasAt(data, sym, i) ==
    i + Len(sym) <= Len(data) /\ SubSeq(data, i + 1, i + Len(sym)) = sym

\* the end of the longest run of sym that starts at offset i
RECURSIVE RunEnd(_, _, _)
RunEnd(data, sym, i) ==
    IF HasAt(data, sym, i) THEN RunEnd(data, sym, i + Len(sym)) ELSE i

\* regex.FindAllIndex(data, -1): the matches from the left, none overlapping,
\* as pairs of byte offsets
RECURSIVE FindAllIndex(_, _, _)
FindAllIndex(search, data, i) ==
    LET sym == RuneOf(search)
    IN  IF i >= Len(data) THEN <<>>
        ELSE IF HasAt(data, sym, i)
             THEN LET j == IF IsPlus(search) THEN RunEnd(data, sym, i) ELSE i + Len(sym)
                  IN  <<(<<i, j>>)>> \o FindAllIndex(search, data, j)
             ELSE FindAllIndex(search, data, i + 1)

\* runePos(p, str): the runes before the byte offset p
runePos(p, data) == RuneCount(Upto(data, p))

\* Count(s): the runes of s
Count(t) == RuneCount(t)

\* the deltas replaceAll makes for line i from its matches, the k-th one on
\* with the offset xOffset
RECURSIVE lineDeltas(_, _, _, _, _, _, _)
lineDeltas(search, replace, data, i, matches, k, xOffset) ==
    IF k > Len(matches) THEN <<>>
    ELSE <<[text |-> replace,
            from |-> Loc(runePos(matches[k][1], data) + xOffset, i),
            to   |-> Loc(runePos(matches[k][2], data) + xOffset, i)]>>
         \o lineDeltas(search, replace, data, i, matches, k + 1,
                       xOffset + (Count(replace) - Count(search)))

\* the deltas of all the lines from line i on
RECURSIVE allDeltas(_, _, _, _)
allDeltas(search, replace, la, i) ==
    IF i >= Len(la) THEN <<>>
    ELSE lineDeltas(search, replace, la[i + 1].data, i,
                    FindAllIndex(search, la[i + 1].data, 0), 1, 0)
         \o allDeltas(search, replace, la, i + 1)

\* a location the line store can take: a line of the buffer and a column in it
InLine(la, loc) ==
    /\ loc.Y >= 0 /\ loc.Y < Len(la)
    /\ loc.X >= 0 /\ loc.X <= RuneCount(la[loc.Y + 1].data)

\* Buffer.MultipleReplace: the deltas from the k-th on are applied to la; a
\* delta outside the line ends the editor with an index out of range
RECURSIVE MultipleReplace(_, _, _)
MultipleReplace(la, deltas, k) ==
    IF k > Len(deltas) THEN [la |-> la, panic |-> FALSE]
    ELSE LET d == deltas[k]
         IN  IF ~InLine(la, d.from) \/ ~InLine(la, d.to) \/ ~LocLE(d.from, d.to)
                \/ removePanics(la, d.from, d.to)
             THEN [la |-> la, panic |-> TRUE]
             ELSE MultipleReplace(insert(remove(la, d.from, d.to).la, d.from, d.text),
                                  deltas, k + 1)

\* the search texts: "a", "a+", the rune of two bytes and that rune with "+"
SearchTexts == { <<97>>, <<97, Plus>>, <<195, 169>>, <<195, 169, Plus>> }

\* the replacement texts: empty, one rune, one rune of two bytes, two runes
ReplaceTexts == { <<>>, <<98>>, <<195, 169>>, <<98, 98>> }

\* Replace(search, replace, "-a"): found is kept in last.pos.X
DoReplaceAll ==
    /\ run.made < MaxReplaces
    /\ \E search \in SearchTexts, replace \in ReplaceTexts :
          LET deltas == allDeltas(search, replace, lines, 0)
              res    == MultipleReplace(lines, deltas, 1)
          IN  /\ lines' = res.la
              /\ NumLines' = Len(lines')
              /\ IsModified' = (IsModified \/ Len(deltas) > 0)
              /\ UndoStack' = IF Len(deltas) > 0 THEN Append(UndoStack, deltas) ELSE UndoStack
              /\ RedoStack' = IF Len(deltas) > 0 THEN RedoAfterEdit(RedoStack) ELSE RedoStack
              /\ last' = [Op("Replace") EXCEPT !.pre = lines, !.text = replace,
                                               !.sub = search, !.pos = Loc(Len(deltas), 0),
                                               !.panic = res.panic]
    /\ open' = FALSE
    /\ run' = [run EXCEPT !.made = @ + 1]
    /\ UNCHANGED <<loadVars, runeVars, extVars>>

\* the files opened: lines with no, one, two and three matches, runs of the
\* rune, runes of two bytes, two lines
ReplaceStreams ==
    { <<>>, <<98>>, <<97>>, <<97, 97>>, <<97, 98, 97>>, <<97, 97, 98, 97>>,
      <<97, 98, 97, 98, 97>>, <<195, 169, 97, 195, 169>>, <<195, 169, 195, 169, 32, 195, 169>>,
      <<97, 32, 97, LF, 98, LF, 97, 97>>, <<98, 97, 195, 169, 97>> }

InitReplace ==
    /\ \E s \in ReplaceStreams : lines = NewLineArray(Reader(s, EOF))
    /\ NumLines = Len(lines)
    /\ IsModified = FALSE
    /\ last = Op("load")
    /\ LoadIdle /\ RuneIdle /\ UndoIdle /\ ExtIdle

NextReplace == DoReplaceAll

SpecReplace == InitReplace /\ [][NextReplace]_vars

----------------------------------------------------------------------------
(* Properties *)

\* txt is well-formed UTF-8: every rune of it decodes to a complete encoding
RECURSIVE ValidUTF8(_)
ValidUTF8(txt) ==
    \/ Len(txt) = 0
    \/ /\ (txt[1] < 128 \/ DecodeRuneSize(txt) > 1)
       /\ ValidUTF8(From(txt, DecodeRuneSize(txt)))

ValidLines(la) == \A i \in 1..Len(la) : ValidUTF8(la[i].data)

\* the byte offset of a location in the serialised buffer
RECURSIVE OffsetOfLine(_, _)
OffsetOfLine(la, y) ==
    IF y = 0 THEN 0 ELSE OffsetOfLine(la, y - 1) + Len(la[y].data) + 1

OffsetOf(la, l) == OffsetOfLine(la, l.Y) + runeToByteIndex(l.X, la[l.Y + 1].data)

\* the text between two locations: that stretch of the serialised buffer
TextBetween(la, start, end) ==
    SubSeq(Flat(la), OffsetOf(la, start) + 1, OffsetOf(la, end))

Restored == DataOf(lines') = DataOf(last.pre) /\ Len(lines') = Len(last.pre) /\ NumLines' = Len(last.pre)

RemoveUndoesInsert == last.op = "insert" /\ last'.op = "remove" /\ last'.inv

InsertUndoesRemove == last.op = "remove" /\ last'.op = "insert" /\ last'.inv

----------------------------------------------------------------------------

\* C1: Insert(L, T) followed by Remove(L, E), E the location just
\* after the inserted text, leaves the line bytes and the line count as they
\* were before the Insert, for every content and every text.
C1_InsertRemoveAny ==
    [][RemoveUndoesInsert => Restored]_vars

\* Insert(L, T) followed by Remove(L, E) leaves the line bytes and the line
\* count as they were before the Insert whenever the buffer content and the
\* text T are well-formed UTF-8.
C1_InsertRemoveIdentity ==
    [][(RemoveUndoesInsert /\ ValidLines(last.pre) /\ ValidUTF8(last.text))
        => Restored]_vars

\* an inserted text with a line feed and a rune of two bytes has been removed
\* again, from a buffer that held a rune of two bytes
C1_Witness ==
    /\ last.op = "remove" /\ last.inv
    /\ last.text = <<195, 169, LF>>
    /\ ValidLines(last.pre)
    /\ \E i \in 1..Len(lines) : Len(lines[i].data) > RuneCount(lines[i].data)

\* C9: Remove(start, end) returns the text between start and end,
\* lines joined by single line feeds, and inserting the returned text back at
\* start restores the line bytes and the line count, for every content.
C9_RemoveReinsertAny ==
    [][/\ last'.op = "remove" =>
            last'.sub = TextBetween(last'.pre, last'.pos, last'.end)
       /\ InsertUndoesRemove => Restored]_vars

\* Remove(start, end) returns the text between start and end, and inserting
\* the returned text back at start restores the line bytes and the line
\* count whenever the buffer content is well-formed UTF-8.
C9_RemoveReinsert ==
    [][/\ last'.op = "remove" =>
            last'.sub = TextBetween(last'.pre, last'.pos, last'.end)
       /\ (InsertUndoesRemove /\ ValidLines(last.pre)) => Restored]_vars

\* a removed text spanning a line break and a rune of two bytes has been
\* inserted back
C9_Witness ==
    /\ last.op = "insert" /\ last.inv
    /\ CountLF(last.text) > 0
    /\ Len(last.text) > RuneCount(last.text)
    /\ ValidUTF8(last.text)
    /\ ValidLines(lines)

\* C2: after N Insert and Remove calls, N calls of Undo bring back the
\* content from before the edits, and N calls of Redo after them bring back
\* the content from after the edits.
C2_UndoRedoRoundTrip ==
    /\ (run.phase = "undo" /\ run.undos = run.edits) => DataOf(lines) = run.base
    /\ (run.phase = "redo" /\ run.redos = run.edits) => DataOf(lines) = run.post

C4_SplitJoinIdentity ==
    [][(last.op = "split" /\ last'.op = "join" /\ last'.inv)
        => DataOf(lines') = DataOf(last.pre)]_vars

\* a line has been split between a rune of two bytes and another byte, and
\* joined again
C4_Witness ==
    /\ last.op = "join" /\ last.inv
    /\ last.pos.X = 2
    /\ Len(lines[last.pos.Y + 1].data) > 2
    /\ DecodeRuneSize(lines[last.pos.Y + 1].data) = 2

\* C5: for a line of well-formed runes and every k from 0 to its rune length,
\* runeToByteIndex(k, line) is the length in bytes of the first k runes.
C5_RuneToByteIndex ==
    rout >= 0 => rout = Len(Concat(Upto(rrunes, rn)))

\* the offset of the third rune of a line that mixes widths
C5_Witness ==
    /\ rout >= 0 /\ rn = 2 /\ Len(rrunes) = 3
    /\ Len(rrunes[1]) = 1 /\ Len(rrunes[2]) = 2 /\ Len(rrunes[3]) = 3

\* the stream keeps to the line-ending convention ff: with "dos" every line
\* feed follows a carriage return and every carriage return is followed by a
\* line feed, with "unix" there is no carriage return
Conforms(t, ff) ==
    IF ff = "dos"
    THEN \A i \in 1..Len(t) :
            /\ t[i] = LF => (i > 1 /\ t[i - 1] = CR)
            /\ t[i] = CR => (i < Len(t) /\ t[i + 1] = LF)
    ELSE \A i \in 1..Len(t) : t[i] # CR

\* C6: a stream T that keeps to the buffer's line-ending convention (LF or
\* CRLF), loaded without a password and encoded unedited with that
\* convention, gives the bytes of T.
C6_LoadEncodeRoundTrip ==
    (disk.written /\ ~reader.nil /\ reader.err = EOF
        /\ Conforms(reader.bytes, fileformat))
    => disk.bytes = reader.bytes

\* C7: after construction from any input the LineArray holds at least one
\* line and no line holds a line feed.
C7_AtLeastOneLineNoLF ==
    last.op # "none" =>
        /\ Len(lines) >= 1
        /\ \A i \in 1..Len(lines) : \A j \in 1..Len(lines[i].data) :
              lines[i].data[j] # LF

\* C8: a stream read to its end gives one line more than it has line feeds,
\* the last line being the bytes after the last line feed; the empty stream
\* gives one empty line.
C8_LineCountOfStream ==
    (last.op = "load" /\ ~reader.nil /\ reader.err = EOF) =>
        /\ Len(lines) = CountLF(reader.bytes) + 1
        /\ NumLines = CountLF(reader.bytes) + 1
        /\ lines[Len(lines)].data = AfterLastLF(reader.bytes)
        /\ reader.bytes = <<>> => DataOf(lines) = << <<>> >>

\* a stream of two terminated lines and an unterminated rest has been loaded
C8_Witness ==
    /\ last.op = "load" /\ ~reader.nil /\ reader.err = EOF
    /\ reader.bytes = <<LF, LF, 97>>
    /\ NumLines = 3

\* C10: Insert of the empty text and Remove with start = end, at any valid
\* location, raise no index error, leave the lines and the line count as
\* they were, and Remove returns the empty text.
C10_EmptyEditsAreNoOps ==
    /\ (last.op = "insert" /\ last.text = <<>>) =>
          (~last.panic /\ lines = last.pre /\ NumLines = Len(last.pre))
    /\ (last.op = "remove" /\ last.pos = last.end) =>
          (~last.panic /\ lines = last.pre /\ NumLines = Len(last.pre)
           /\ last.sub = <<>>)

\* Remove(Start(), End()) has run on a buffer of one empty line
C10_Witness ==
    /\ last.op = "remove"
    /\ DataOf(last.pre) = << <<>> >>
    /\ last.pos = Start /\ last.end = End(last.pre, Len(last.pre))
    /\ NumLines = 1

\* C11: every change SaveAs makes to the lines (trailing white space trimmed,
\* a line feed appended) is in the undo log: taking back the groups the save
\* pushed gives the lines from before the save.
C11_SaveChangesUndoable ==
    [][save'.n = save.n + 1 =>
          DataOf(UndoNewest(lines', UndoStack', save'.groups)) = DataOf(lines)]_vars

\* C15: with fastdirty off, Modified() is true exactly when the lines differ
\* from the lines at the last load or successful save (SaveAs or
\* SaveAsWithSudo), so it is false right after every successful save.
C15_ModifiedIffChanged ==
    ~Settings.fastdirty => (Modified <=> DataOf(lines) # save.captured)

\* C16: when the codec fails during SaveAs, SaveAs returns the error, the
\* file on disk keeps the bytes it had, and a set modified flag stays set.
C16_CodecFailureLeavesFile ==
    [][(save'.n = save.n + 1 /\ save'.op = "SaveAs" /\ save'.outcome = "codecfail")
        => (save'.err /\ file' = file /\ (IsModified => IsModified'))]_vars

\* a snapshot of the opened path was stored with another modification time
\* than the file has now
StaleSnapshot ==
    /\ opened.done /\ ~opened.placeholder
    /\ env.history.kind = "ok" /\ env.history.ModTime # ModTime

\* no line and no column was asked for
NothingRequested ==
    env.flagStartPos.kind = "none" /\ env.cursorPosition.kind = "none"

\* C12: on a load with saveundo on, the persisted undo log replaces the fresh
\* one only if the modification time stored in the snapshot equals the file's
\* modification time; with a mismatch the buffer keeps a fresh undo log.
C12_UndoLogOnlyOnSameModTime ==
    (opened.done /\ Settings.saveundo) =>
        /\ EventHandler = "restored" =>
              (env.history.kind = "ok" /\ env.history.ModTime = ModTime)
        /\ (env.history.kind = "ok" /\ env.history.ModTime # ModTime) =>
              EventHandler = "fresh"

C12_Witness ==
    /\ opened.done /\ Settings.saveundo /\ EventHandler = "restored"
    /\ env.history.ModTime = ModTime

NoUsableHistory ==
    /\ opened.done /\ ~opened.placeholder
    /\ env.history.kind \in {"missing", "corrupt"}

\* C14: if the persisted history file is missing or cannot be decoded, the load
\* completes without crashing and the buffer is as if no history existed: it
\* has a fresh undo log and its cursor is at the requested (or default)
\* location.
C14_BadHistoryIsNoHistory ==
    NoUsableHistory =>
        /\ ~opened.panic
        /\ EventHandler = "fresh"
        /\ Cursor = opened.requested

\* the same for NewBufferWithPassword of unnamed/part_001 alone
C14_BadHistoryIsNoHistoryNew ==
    env.ver = "new" => C14_BadHistoryIsNoHistory

C14_Witness ==
    /\ NoUsableHistory /\ env.history.kind = "corrupt"
    /\ Settings.savecursor /\ Settings.saveundo
    /\ opened.messages = 1 /\ EventHandler = "fresh"

\* the failure of Decode reaches the user: as a message in unnamed/part_001,
\* as the text of the buffer in cmd/micro/buffer.go
ErrorSurfaced == opened.messages >= 1 \/ Flat(lines) # <<>>

\* C17: if the codec fails to decode the input during load, the load does not
\* crash, the error is surfaced, and a well-formed placeholder buffer (at
\* least one line, valid cursor) is produced.
C17_DecodeFailureGivesPlaceholder ==
    (opened.done /\ opened.placeholder) =>
        /\ ~opened.panic
        /\ ErrorSurfaced
        /\ NumLines >= 1 /\ NumLines = Len(lines)
        /\ Cursor \in ValidLocs(lines)

\* the same for NewBufferWithPassword of unnamed/part_001 alone
C17_DecodeFailureGivesPlaceholderNew ==
    env.ver = "new" => C17_DecodeFailureGivesPlaceholder

C17_Witness ==
    /\ opened.done /\ opened.placeholder /\ env.flagStartPos.kind = "ok"
    /\ NumLines = 1 /\ Cursor \in ValidLocs(lines)

\* a line and a column were asked for, by -startpos or after the file name
LocationRequested ==
    env.flagStartPos.kind = "ok" \/ env.cursorPosition.kind = "ok"

\* C18: after a load with a caller-supplied start line and column (any
\* integers), the primary cursor is valid for the loaded content:
\* 0 <= line < LineCount and 0 <= column <= rune length of that line.
C18_StartCursorValid ==
    (opened.done /\ ~opened.placeholder /\ LocationRequested) =>
        Cursor \in ValidLocs(lines)

\* the line alone: 0 <= line < LineCount
C18_StartLineValid ==
    (opened.done /\ ~opened.placeholder /\ LocationRequested) =>
        (0 <= Cursor.Y /\ Cursor.Y < NumLines)

\* C18_StartLineValid for NewBufferWithPassword of unnamed/part_001 alone
C18_StartLineValidNew ==
    env.ver = "new" => C18_StartLineValid

\* C18 for files of ASCII bytes opened by unnamed/part_001
C18_StartCursorValidASCIINew ==
    (env.ver = "new" /\ \A i \in 1..Len(Flat(lines)) : Flat(lines)[i] < 128) =>
        C18_StartCursorValid

C18_Witness ==
    /\ opened.done /\ ~opened.placeholder /\ env.flagStartPos.kind = "ok"
    /\ env.flagStartPos.line = MaxPos /\ env.flagStartPos.col = MaxPos
    /\ NumLines = 2 /\ Cursor.Y = 1

\* the indexes of the cursors that are the earliest at their location
Earliest(cs) == { i \in 1..Len(cs) : \A j \in 1..(i - 1) : cs[j].Loc # cs[i].Loc }

\* the k-th of them
EarliestAt(cs, k) ==
    CHOOSE i \in Earliest(cs) : Cardinality({ j \in Earliest(cs) : j <= i }) = k

\* after is what a merge of before leaves: one cursor for each location, the
\* earliest, in the order they had
Survivors(before, after) ==
    /\ Len(after) = Cardinality(Earliest(before))
    /\ \A k \in 1..Len(after) :
          /\ after[k].ptr = before[EarliestAt(before, k)].ptr
          /\ after[k].Loc = before[EarliestAt(before, k)].Loc
    /\ \A k \in 1..Len(after) : \A l \in 1..Len(after) :
          k # l => after[k].Loc # after[l].Loc

Numbered(cs) == \A k \in 1..Len(cs) : cs[k].Num = k - 1

\* C19: after MergeCursors no two cursors share a location; for each location
\* the earliest cursor remains, the survivors keep their order and are numbered
\* 0..n-1, and the current-cursor index lies in [0, n).
C19_MergeCursors ==
    [][last'.op = "MergeCursors" =>
          /\ Survivors(cursors, cursors')
          /\ Numbered(cursors')
          /\ 0 <= curCursor' /\ curCursor' < Len(cursors')]_vars

\* the same for MergeCursors of unnamed/part_001 alone
C19_MergeCursorsNew ==
    [][(last'.op = "MergeCursors" /\ merge = "new") =>
          /\ Survivors(cursors, cursors')
          /\ Numbered(cursors')
          /\ 0 <= curCursor' /\ curCursor' < Len(cursors')]_vars

\* what both versions do: one cursor for each location, the earliest, in order
C19_MergeKeepsEarliest ==
    [][last'.op = "MergeCursors" => Survivors(cursors, cursors')]_vars

\* the bound on the current-cursor index once UpdateCursors has numbered the
\* cursors, as cmd/micro/buffer.go needs it to after MergeCursors
C19_UpdateAfterMergeInRange ==
    last.op = "UpdateCursors" => (0 <= curCursor /\ curCursor < Len(cursors))

C19_Witness ==
    /\ last.op = "MergeCursors" /\ merge = "new"
    /\ Len(cursors) = 2 /\ curCursor = 1 /\ cursors[2].ptr = 3

\* the runes of the whole buffer in order, a line end between two lines
AllRunes(la) == toRunes(Flat(la))

\* the place of a location in AllRunes, counted from 1
RECURSIVE PlaceOf(_, _)
PlaceOf(la, loc) ==
    IF loc.Y = 0 THEN loc.X + 1
    ELSE Len(LineRunes(la, 0)) + 1 + PlaceOf(Tail(la), Loc(loc.X, loc.Y - 1))

\* opening brackets less closing brackets among the runes p..q
RECURSIVE Depth(_, _, _, _)
Depth(rs, braceType, p, q) ==
    IF p > q THEN 0
    ELSE (IF rs[q] = braceType[1] THEN 1 ELSE IF rs[q] = braceType[2] THEN -1 ELSE 0)
         + Depth(rs, braceType, p, q - 1)

\* the closing bracket at q balances the opening bracket at p
Balances(rs, braceType, p, q) ==
    /\ p < q /\ rs[p] = braceType[1] /\ rs[q] = braceType[2]
    /\ Depth(rs, braceType, p, q) = 0
    /\ \A m \in p..(q - 1) : Depth(rs, braceType, p, m) > 0

\* the rune at the location FindMatchingBrace was given
StartChar == LineRunes(lines, brace.start.Y)[brace.start.X + 1]

BraceSearched == brace.done /\ ~brace.panic

\* C20: FindMatchingBrace is symmetric: from an opening bracket A that has a
\* balancing closing bracket it returns that bracket's location B, and from B
\* it returns A; when no bracket balances the one at the location, or the rune
\* there is neither bracket of the pair, it returns the location it was given.
C20_FindMatchingBraceSymmetric ==
    BraceSearched =>
        LET rs == AllRunes(lines)
            bt == brace.braceType
            a  == PlaceOf(lines, brace.start)
            b  == PlaceOf(lines, brace.result)
        IN  /\ (StartChar = bt[1] /\ \E q \in 1..Len(rs) : Balances(rs, bt, a, q)) =>
                  /\ Balances(rs, bt, a, b)
                  /\ FindMatchingBrace(lines, bt, brace.result) =
                        [loc |-> brace.start, panic |-> FALSE]
            /\ (StartChar = bt[1] /\ ~\E q \in 1..Len(rs) : Balances(rs, bt, a, q)) =>
                  brace.result = brace.start
            /\ (StartChar = bt[2] /\ ~\E q \in 1..Len(rs) : Balances(rs, bt, q, a)) =>
                  brace.result = brace.start
            /\ (StartChar # bt[1] /\ StartChar # bt[2]) => brace.result = brace.start
            /\ brace.result # brace.start =>
                  FindMatchingBrace(lines, bt, brace.result) =
                     [loc |-> brace.start, panic |-> FALSE]

\* an opening bracket whose closing bracket comes after another pair of the
\* same kind
C20_Witness ==
    /\ BraceSearched /\ StartChar = brace.braceType[1]
    /\ PlaceOf(lines, brace.result) - PlaceOf(lines, brace.start) = 3
    /\ AllRunes(lines)[PlaceOf(lines, brace.start) + 1] = brace.braceType[1]

\* an Insert or a Remove has just been applied without a panic
EditApplied == last'.op \in {"insert", "remove"} /\ ~last'.panic /\ last' # last

\* the line the edit was made at, before and after
EditedBefore == lines[last'.pos.Y + 1]
EditedAfter == lines'[last'.pos.Y + 1]

\* the state and the match are cleared and the line is marked for rehighlight
Invalidated(l) == l.state = Nil /\ l.match = Nil /\ l.rehighlight

\* C22: every Insert or Remove that changes the bytes of the line it is made
\* at leaves that line with its highlight state and its match cleared and its
\* rehighlight flag set.
C22_EditInvalidatesLine ==
    [][(EditApplied /\ EditedAfter.data # EditedBefore.data) => Invalidated(EditedAfter)]_vars

\* the same for the Inserts that cut the line: text with a line feed, put
\* before the end of the line
C22_CuttingInsertInvalidatesLine ==
    [][(/\ EditApplied /\ last'.op = "insert" /\ CountLF(last'.text) > 0
        /\ last'.pos.X < RuneCount(EditedBefore.data)) => Invalidated(EditedAfter)]_vars

C22_Witness ==
    /\ last.op = "insert" /\ last.text = <<97>> /\ ~last.panic
    /\ Len(last.pre) = 1 /\ last.pre[1].data = <<97>> /\ last.pre[1].state = "s0"
    /\ lines[1].data = <<97, 97>>

\* the length in bytes of the first k runes of txt
RECURSIVE RunePrefixLen(_, _)
RunePrefixLen(txt, k) ==
    IF k = 0 \/ Len(txt) = 0 THEN 0
    ELSE DecodeRuneSize(txt) + RunePrefixLen(From(txt, DecodeRuneSize(txt)), k - 1)

\* the first k runes of txt, and what follows them
RunesUpto(txt, k) == Upto(txt, RunePrefixLen(txt, k))
RunesFrom(txt, k) == From(txt, RunePrefixLen(txt, k))

\* the serialised buffer up to a location, and from it on
FlatUpto(la, loc) ==
    Upto(Flat(la), OffsetOfLine(la, loc.Y) + RunePrefixLen(la[loc.Y + 1].data, loc.X))
FlatFrom(la, loc) ==
    From(Flat(la), OffsetOfLine(la, loc.Y) + RunePrefixLen(la[loc.Y + 1].data, loc.X))

NoLineFeedIn(la) == \A i \in 1..Len(la) : \A j \in 1..Len(la[i].data) : la[i].data[j] # LF

\* C23: Insert(pos, T) splices T into the text at rune position pos: the text
\* before pos and the text from pos on are kept around T, every line feed of T
\* starts a new line, the line count grows by the number of line feeds in T,
\* and a multi-byte rune next to pos is not split.
C23_InsertSplices ==
    [][last'.op = "insert" =>
          /\ ~last'.panic
          /\ Flat(lines') = FlatUpto(lines, last'.pos) \o last'.text \o FlatFrom(lines, last'.pos)
          /\ NoLineFeedIn(lines')
          /\ Len(lines') = Len(lines) + CountLF(last'.text)
          /\ NumLines' = Len(lines')
          /\ lines'[last'.pos.Y + 1].data =
                RunesUpto(lines[last'.pos.Y + 1].data, last'.pos.X)
                \o (IF CountLF(last'.text) = 0
                    THEN last'.text \o RunesFrom(lines[last'.pos.Y + 1].data, last'.pos.X)
                    ELSE Upto(last'.text, IndexLF(last'.text, 0)))]_vars

\* "a" put at column 1 of the line U+00E9 "a" comes after the two bytes
\* of U+00E9
C23_Witness ==
    /\ last.op = "insert" /\ last.pos = Loc(1, 0) /\ last.text = <<97>>
    /\ last.pre[1].data = <<195, 169>>
    /\ lines[1].data = <<195, 169, 97>>

\* C24: Remove(start, end) over several lines leaves at start.line the first
\* start.column runes of the start line followed by the end line from rune
\* end.column on, deletes the lines after it up to end.line and lowers the line
\* count by end.line - start.line; within one line it removes the runes
\* [start.column, end.column) and keeps the line count.
C24_RemoveCuts ==
    [][last'.op = "remove" =>
          LET start == last'.pos
              end   == last'.end
              gone  == end.Y - start.Y
          IN  /\ ~last'.panic
              /\ Len(lines') = Len(lines) - gone
              /\ NumLines' = Len(lines')
              /\ lines'[start.Y + 1].data =
                    RunesUpto(lines[start.Y + 1].data, start.X)
                    \o RunesFrom(lines[end.Y + 1].data, end.X)
              /\ \A i \in 1..start.Y : lines'[i].data = lines[i].data
              /\ \A i \in (start.Y + 2)..Len(lines') : lines'[i].data = lines[i + gone].data]_vars

\* a Remove that takes a whole line out from between two others
C24_Witness ==
    /\ last.op = "remove" /\ ~last.panic
    /\ last.end.Y = last.pos.Y + 2
    /\ Len(lines) = Len(last.pre) - 2

\* a Remove of one two-byte rune inside a line
C24_WitnessRune ==
    /\ last.op = "remove" /\ ~last.panic /\ last.pos = Loc(0, 0) /\ last.end = Loc(1, 0)
    /\ last.sub = <<195, 169>>

\* the bytes, the highlight state and the matches of a line
Kept(l) == <<l.data, l.state, l.match>>

\* C25: Insert and Remove leave every line outside the affected range as it
\* was: the lines above the first affected line keep their index, bytes,
\* highlight state and matches, the lines below the last affected line keep
\* their bytes, highlight state and matches and move by the change of the line
\* count.
C25_EditFrame ==
    [][EditApplied =>
          LET first == last'.pos.Y
              lastY == IF last'.op = "insert" THEN last'.pos.Y ELSE last'.end.Y
              shift == Len(lines') - Len(lines)
          IN  /\ \A y \in 0..(first - 1) : Kept(lines'[y + 1]) = Kept(lines[y + 1])
              /\ \A y \in (lastY + 1)..(Len(lines) - 1) :
                    Kept(lines'[y + 1 + shift]) = Kept(lines[y + 1])]_vars

\* a line feed put into the middle line of three: the line above and the line
\* below keep their states
C25_Witness ==
    /\ last.op = "insert" /\ ~last.panic /\ last.pos.Y = 1 /\ CountLF(last.text) = 1
    /\ Len(last.pre) = 3 /\ Len(lines) = 4
    /\ lines[1].state = "s0" /\ lines[4].state = "s2" /\ lines[4].match = "m2"

\* a Remove over the first two lines of three: the third moves up with its state
C25_WitnessRemove ==
    /\ last.op = "remove" /\ ~last.panic /\ last.pos.Y = 0 /\ last.end.Y = 1
    /\ Len(last.pre) = 3 /\ Len(lines) = 2 /\ lines[2].state = "s2"

\* C26: Split(pos) migrates the highlight data: afterwards the new lower line
\* holds the highlight state the line had before the split, the cut upper line
\* has its state cleared and its rehighlight flag set, and both lines have
\* empty matches.
C26_SplitMigratesState ==
    [][last'.op = "split" =>
          LET y     == last'.pos.Y
              upper == lines'[y + 1]
              lower == lines'[y + 2]
          IN  /\ Len(lines') = Len(lines) + 1
              /\ lower.state = lines[y + 1].state
              /\ upper.state = Nil /\ upper.rehighlight
              /\ upper.match = Nil /\ lower.match = Nil
              /\ upper.data = Upto(lines[y + 1].data, last'.pos.X)
              /\ lower.data = From(lines[y + 1].data, last'.pos.X)]_vars

\* the second line of two split after its first byte: the new third line
\* holds the state s1
C26_Witness ==
    /\ last.op = "split" /\ last.pos = Loc(1, 1)
    /\ Len(lines) = 3 /\ lines[3].state = "s1" /\ lines[2].state = Nil
    /\ lines[2].rehighlight /\ lines[1].state = "s0"

\* C21: after the lazy forward pass has completed, following any sequence of
\* edits, the cached state and the matches of every line are those a
\* rehighlight of the whole buffer from line 0 computes, and no line is left
\* marked.
C21_PassEqualsFullRehighlight ==
    last.op = "highlight" =>
        /\ Dirty(lines) = {}
        /\ \A i \in 1..Len(lines) :
              /\ lines[i].state = HighlightStates(lines, 0)[i].state
              /\ lines[i].match = HighlightStates(lines, 0)[i].match

\* the states alone, for the passes that find a line marked
C21_PassOverMarkedLines ==
    (last.op = "highlight" /\ Dirty(last.pre) # {}) =>
        \A i \in 1..Len(lines) : lines[i].state = HighlightStates(lines, 0)[i].state

\* a pass that goes from a marked line over the next line
C21_Witness ==
    /\ last.op = "highlight" /\ Dirty(last.pre) # {}
    /\ \E i \in 1..Len(lines) : ~last.pre[i].rehighlight /\ lines[i].state # last.pre[i].state

\* a step of the background goroutine
GoroutineStep == shell'.go # shell.go /\ shell.go # "none"

C28_InterruptNeverCrashes == ~shell.crashed

\* C28, the case the trap was written for: an interrupt handled while the
\* child runs, and seen running by the trap, kills the child and nothing else.
C28_RunningChildKilled ==
    [][shell.Process = "running" /\ shell'.by = "trap" /\ ~shell'.crashed
         => shell'.Process = "killed" /\ UNCHANGED bufVars]_vars

\* the file has been opened again after a persisted history was written
Reopened == store.phase = "reopened"

\* the last thing done to the buffer was a SaveAs that wrote the file
JustSaved == store.phase = "saved" /\ save.outcome = "ok"

\* the file has been opened again right after a SaveAs that wrote it
ReopenedAfterSave == Reopened /\ store.via = "SaveAs"

\* the undo log is the one the buffer held when it was persisted
UndoLogRestored ==
    /\ EventHandler = "restored"
    /\ UndoStack = store.saved.UndoStack
    /\ RedoStack = store.saved.RedoStack

\* C29: with saveundo on, the snapshot written by a successful SaveAs carries
\* the modification time the file has on disk after that save, and opening
\* the file again, nothing else having changed it, restores the undo log
\* that was persisted.
C29_SnapshotCarriesSavedModTime ==
    Settings.saveundo =>
       /\ JustSaved => store.snapshot.ModTime = store.mtime
       /\ ReopenedAfterSave => UndoLogRestored

\* C29 for cmd/micro/buffer.go alone, where the time is read before Serialize
C29_SnapshotCarriesSavedModTimeOld ==
    env.ver = "old" => C29_SnapshotCarriesSavedModTime

\* C29 without the second half: in unnamed/part_001 the snapshot of a SaveAs
\* carries the time the buffer knew before the save
C29_SnapshotCarriesOlderModTimeNew ==
    (env.ver = "new" /\ Settings.saveundo /\ JustSaved) =>
        store.snapshot.ModTime < store.mtime

\* a file saved with an undo log of two groups and opened again
C29_Witness ==
    /\ ReopenedAfterSave /\ Settings.saveundo
    /\ Len(store.saved.UndoStack) = 2

\* the snapshot on disk was decoded, its time is the time of the file, and
\* the buffer has the undo log and the cursor that were persisted, the
\* cursor brought into the lines of the file
HistoryRestored ==
    /\ opened.messages = 0
    /\ (Settings.saveundo /\ store.snapshot.ModTime = store.mtime) => UndoLogRestored
    /\ Settings.savecursor => Cursor = Relocate(lines, NumLines, store.saved.Cursor)

\* a history is kept
Keeping == Settings.savecursor \/ Settings.saveundo

\* C30: the snapshot written by Serialize is in the format the load path
\* reads whatever the password of the buffer: for a buffer with a password,
\* opening the unchanged file again after Serialize decodes the snapshot
\* without an error and gives back the undo log and the cursor.
C30_SnapshotReadableWithPassword ==
    (Reopened /\ Keeping /\ Password # "") => HistoryRestored

\* C30 for the buffers without a password
C30_SnapshotReadableWithoutPassword ==
    (Reopened /\ Keeping /\ Password = "") => HistoryRestored

\* C30 for cmd/micro/buffer.go alone, where Serialize writes gob to the file
C30_SnapshotReadableWithPasswordOld ==
    env.ver = "old" => C30_SnapshotReadableWithPassword

\* in unnamed/part_001 a buffer with a password never gets its history back
C30_PasswordLosesHistoryNew ==
    (Reopened /\ Keeping /\ Password # "" /\ env.ver = "new") =>
        /\ opened.messages = 1
        /\ EventHandler = "fresh" /\ UndoStack = <<>>
        /\ Settings.savecursor => Cursor = Loc(0, 0)

\* the last line of the buffer is empty
LastLineEmpty == Len(lines[Len(lines)].data) = 0

\* the bytes end in a line feed
EndsInLF(bytes) == Len(bytes) > 0 /\ bytes[Len(bytes)] = LF

\* SaveAs has just run
AfterSaveAs == last.op = "save" /\ save.op = "SaveAs"

\* a SaveAs that follows a SaveAs with no edit in between adds no line and
\* no group to the undo log
SecondSaveAddsNothing ==
    [][(AfterSaveAs /\ last'.op = "save")
          => (DataOf(lines') = DataOf(lines) /\ save'.groups = 0)]_vars

\* the bytes written by a successful SaveAs end with a line terminator
WrittenEndsInLF == save.outcome = "ok" => EndsInLF(file.bytes)

\* the same, but one empty line is written as the empty file
WrittenEndsInLFUnlessEmpty ==
    save.outcome = "ok" =>
       (IF Len(lines) = 1 THEN file.bytes = <<>> ELSE EndsInLF(file.bytes))

\* C31 as stated: with eofnewline on, after SaveAs the last line of the
\* buffer is empty and the bytes written end with a line terminator, and a
\* second SaveAs with no edit in between adds no further line.
C31_SavedEndsWithTerminator ==
    /\ [](AfterSaveAs => (LastLineEmpty /\ WrittenEndsInLF))
    /\ SecondSaveAddsNothing

\* C31 amended: with eofnewline on, after SaveAs the last line of the
\* buffer is empty; the bytes written end with a line terminator unless the
\* buffer is one empty line, which is written as the empty file; a second
\* SaveAs with no edit in between adds no further line.
C31_SavedEndsWithTerminatorUnlessEmpty ==
    /\ [](AfterSaveAs => (LastLineEmpty /\ WrittenEndsInLFUnlessEmpty))
    /\ SecondSaveAddsNothing

\* a second SaveAs in a row of a buffer to which the first one added a line
C31_Witness ==
    /\ AfterSaveAs /\ save.n = 2 /\ save.outcome = "ok"
    /\ save.groups = 0 /\ Len(UndoStack) = 1 /\ run.made = 0
    /\ Len(lines) = 2 /\ EndsInLF(file.bytes)

\* the sequence d with its element at index from (from 1) moved to index to
MovedTo(d, from, to) ==
    LET rest == [i \in 1..(Len(d) - 1) |-> IF i < from THEN d[i] ELSE d[i + 1]]
    IN  [i \in 1..Len(d) |-> IF i < to THEN rest[i]
                              ELSE IF i = to THEN d[from] ELSE rest[i - 1]]

\* the line contents as a bag
BagOfLines(d) == [x \in {d[i] : i \in 1..Len(d)} |-> Cardinality({i \in 1..Len(d) : d[i] = x})]

\* the last call, its arguments and whether they passed its guard
Moved(name) == last'.op = name
MoveStart == last'.pos.X
MoveEnd == last'.pos.Y

C32_WitnessLast ==
    /\ last.op = "MoveLinesUp" /\ last.inv /\ last.pos.Y = Len(lines)
    /\ Len(lines) = 3 /\ lines[3].data = <<195>>

\* data with its matches from the k-th on replaced by the text, from the
\* byte offset i on
RECURSIVE Replaced(_, _, _, _, _)
Replaced(data, matches, k, i, text) ==
    IF k > Len(matches) THEN From(data, i)
    ELSE SubSeq(data, i + 1, matches[k][1]) \o text
         \o Replaced(data, matches, k + 1, matches[k][2], text)

\* the matches of the search text in all the lines
RECURSIVE MatchCount(_, _, _)
MatchCount(search, la, i) ==
    IF i > Len(la) THEN 0
    ELSE Len(FindAllIndex(search, la[i].data, 0)) + MatchCount(search, la, i + 1)

\* Replace has run on the lines last.pre
ReplaceDone == last.op = "Replace"

\* every line is the line before with each match replaced
EveryMatchReplaced ==
    /\ ~last.panic
    /\ Len(lines) = Len(last.pre)
    /\ \A i \in 1..Len(lines) :
          lines[i].data = Replaced(last.pre[i].data,
                                   FindAllIndex(last.sub, last.pre[i].data, 0), 1, 0,
                                   last.text)

\* the count reported is the number of matches
CountReported == last.pos.X = MatchCount(last.sub, last.pre, 1)

\* C33: Replace with the all-at-once flag turns every line into the line
\* with each match replaced by the replacement text, also for lines with
\* several matches, for matches longer than the search text and for runes of
\* several bytes; the count reported is the number of matches.
C33_ReplaceAll == ReplaceDone => (EveryMatchReplaced /\ CountReported)

\* C33 for the search texts whose matches are as long as the text itself
C33_ReplaceAllLiteral ==
    (ReplaceDone /\ ~IsPlus(last.sub)) => (EveryMatchReplaced /\ CountReported)

\* C33, the count alone
C33_CountReported == ReplaceDone => CountReported

\* two runs of the rune in one line were to be replaced
C33_Witness ==
    /\ ReplaceDone /\ IsPlus(last.sub) /\ last.pos.X = 2
    /\ Len(last.pre) = 1 /\ last.pre[1].data = <<97, 97, 98, 97>>

\* ---------------------------------------------------------------------------
\* The InfoBuf: messages, prompts and their callbacks
\* ---------------------------------------------------------------------------

MaxPrompts == 2
MaxTyped == 1

\* A prompt as it is asked for: "text" and "secret" are the ptype of Prompt,
\* "yn" is a YNPrompt; msg is the text Prompt puts in the buffer; beh is what
\* the callback does when it is invoked: nothing more ("none"), or start a
\* text prompt with a msg whatever the answer ("text"), or start a secret
\* prompt when the answer was accepted, as passwordPrompt's donecb does
\* through next ("secret")
Behaviours == {"none", "text", "secret"}
Asked(kind, msg, beh) == [kind |-> kind, msg |-> msg, beh |-> beh]
\* the prompts asked for: a text prompt comes with a msg, a secret prompt
\* with none, as PasswordPrompt asks for it
Prompts ==
    { Asked("text", <<"m">>, beh) : beh \in Behaviours }
        \cup { Asked("secret", <<>>, beh) : beh \in {"none", "secret"} }
YNPrompts == { Asked("yn", <<>>, beh) : beh \in {"none", "text"} }

\* one entry of the record of what happened: a call of Prompt or YNPrompt
\* began ("start", active the prompt active then), a callback was invoked
\* ("invoke"), the state of a prompt was installed ("install", active the
\* prompt still active then); hist is len(History[PromptType]) at that moment
Ev(ev, id, resp, canceled, hist, active) ==
    [ev |-> ev, id |-> id, resp |-> resp, canceled |-> canceled, hist |-> hist,
     active |-> active]

\* the prompt on screen, 0 when there is none
ActivePrompt(i) == IF i.HasPrompt THEN i.cur ELSE 0
HistLen(i) == IF i.PromptType = "" THEN 0 ELSE Len(i.History[i.PromptType])
Logged(i, e) == [i EXCEPT !.log = Append(@, e)]

\* InfoBuf.DonePrompt, Call what invoking a callback does
DonePromptWith(Call(_, _, _, _), i, canceled) ==
    LET hadYN == i.HasYN
        a == [i EXCEPT !.HasPrompt = FALSE, !.HasYN = FALSE, !.HasGutter = FALSE]
        h == a.History[a.PromptType]
        cb == a.PromptCallback
        a1 == [a EXCEPT !.PromptCallback = 0]
        called ==
            IF cb = 0 THEN a
            ELSE IF Len(h) = 0 THEN [a1 EXCEPT !.panic = TRUE]
            ELSE IF canceled
            THEN Call([a1 EXCEPT !.History[a.PromptType] = Upto(h, Len(h) - 1)],
                      cb, <<>>, TRUE)
            ELSE IF a.PromptType = "secret"
            THEN Call([a1 EXCEPT !.Secret = <<>>], cb, a.Secret, FALSE)
            ELSE Call([a1 EXCEPT !.History[a.PromptType][Len(h)] = a.text],
                      cb, a.text, FALSE)
        b == IF hadYN THEN a
             ELSE IF called.panic THEN called
             ELSE [called EXCEPT !.text = <<>>]
    IN  IF b.YNCallback # 0 /\ hadYN /\ ~b.panic
        THEN Call(b, b.YNCallback, IF b.YNResp THEN <<"y">> ELSE <<"n">>, canceled)
        ELSE b

\* InfoBuf.Prompt, Done the DonePrompt it calls
PromptWith(Done(_, _), i, p) ==
    LET s == Logged(i, Ev("start", 0, <<>>, FALSE, HistLen(i), ActivePrompt(i)))
        a == IF s.HasPrompt THEN Done(s, TRUE) ELSE s
        id == Len(a.reg) + 1
        b == Logged(a, Ev("install", id, <<>>, FALSE, Len(a.History[p.kind]),
                          ActivePrompt(a)))
    IN  IF a.panic THEN a
        ELSE [b EXCEPT !.History[p.kind] = Append(@, <<>>),
                       !.HistoryNum = Len(a.History[p.kind]),
                       !.PromptType = p.kind,
                       !.Msg = IF p.kind = "secret" THEN "Password: " ELSE "> ",
                       !.HasPrompt = TRUE,
                       !.HasMessage = FALSE, !.HasError = FALSE, !.HasYN = FALSE,
                       !.Secret = <<>>,
                       !.HasGutter = FALSE,
                       !.PromptCallback = id,
                       !.text = p.msg \o @,
                       !.reg = Append(@, p), !.cur = id, !.typed = 0]

\* Prompt as a callback calls it: DonePrompt has set HasPrompt to false before
\* it invokes the callback, and the prompt that a callback starts comes with
\* a callback that starts none, so that the calls end here
InvokeInner(i, id, resp, canceled) ==
    Logged(i, Ev("invoke", id, resp, canceled, HistLen(i), 0))
DonePromptInner(i, canceled) == DonePromptWith(InvokeInner, i, canceled)
PromptInner(i, p) == PromptWith(DonePromptInner, i, p)

\* a callback is called: what it was given is recorded, and then it does what
\* beh says
Invoke(i, id, resp, canceled) ==
    LET j == Logged(i, Ev("invoke", id, resp, canceled, HistLen(i), 0))
        beh == i.reg[id].beh
    IN  IF beh = "text"
        THEN PromptInner(j, Asked("text", <<"m">>, "none"))
        ELSE IF beh = "secret" /\ ~canceled
        THEN PromptInner(j, Asked("secret", <<>>, "none"))
        ELSE j

\* InfoBuf.DonePrompt
DonePrompt(i, canceled) == DonePromptWith(Invoke, i, canceled)

\* InfoBuf.Prompt
Prompt(i, p) == PromptWith(DonePrompt, i, p)

\* YNPrompt that installs its state over the prompt on screen
YNPromptNoCancel(i, p) ==
    LET s == Logged(i, Ev("start", 0, <<>>, FALSE, HistLen(i), ActivePrompt(i)))
        id == Len(s.reg) + 1
        b == Logged(s, Ev("install", id, <<>>, FALSE, HistLen(s), ActivePrompt(s)))
    IN  [b EXCEPT !.Msg = "(y,n,esc)", !.HasPrompt = TRUE, !.HasYN = TRUE,
                  !.HasMessage = FALSE, !.HasError = FALSE, !.HasGutter = FALSE,
                  !.YNCallback = id,
                  !.reg = Append(@, p), !.cur = id, !.typed = 0]

\* InfoBuf.YNPrompt
YNPrompt(i, p) ==
    LET s == Logged(i, Ev("start", 0, <<>>, FALSE, HistLen(i), ActivePrompt(i)))
        a == IF s.HasPrompt THEN DonePrompt(s, TRUE) ELSE s
        id == Len(a.reg) + 1
        b == Logged(a, Ev("install", id, <<>>, FALSE, HistLen(a), ActivePrompt(a)))
    IN  IF a.panic THEN a
        ELSE [b EXCEPT !.Msg = "(y,n,esc)", !.HasPrompt = TRUE, !.HasYN = TRUE,
                       !.HasMessage = FALSE, !.HasError = FALSE, !.HasGutter = FALSE,
                       !.YNCallback = id,
                       !.reg = Append(@, p), !.cur = id, !.typed = 0]

\* Message that does not look at HasPrompt
MessageUnguarded(i, msg) ==
    [i EXCEPT !.Msg = msg, !.HasMessage = TRUE, !.HasError = FALSE]

\* InfoBuf.Message
Message(i, msg) ==
    IF i.HasPrompt = FALSE
    THEN [i EXCEPT !.Msg = msg, !.HasMessage = TRUE, !.HasError = FALSE]
    ELSE i

\* InfoBuf.GutterMessage
GutterMessage(i, msg) == [Message(i, msg) EXCEPT !.HasGutter = TRUE]

\* InfoBuf.ClearGutter
ClearGutter(i) == Message([i EXCEPT !.HasGutter = FALSE], "")

\* InfoBuf.Error
Error(i, msg) ==
    IF i.HasPrompt = FALSE
    THEN [i EXCEPT !.Msg = msg, !.HasMessage = FALSE, !.HasError = TRUE]
    ELSE i

\* InfoBuf.Reset
Reset(i) ==
    [i EXCEPT !.Msg = "", !.HasPrompt = FALSE, !.HasMessage = FALSE,
              !.HasError = FALSE, !.HasGutter = FALSE]

\* a key typed while a prompt is on screen: into Secret in a secret prompt,
\* into the buffer otherwise; the key of a secret is "s", any other is "k"
TypeKey(i) ==
    IF i.PromptType = "secret"
    THEN [i EXCEPT !.Secret = Append(@, "s"), !.typed = @ + 1]
    ELSE [i EXCEPT !.text = Append(@, "k"), !.typed = @ + 1]

InfoFrame == UNCHANGED <<bufVars, loadVars, runeVars, undoVars, saveVars, openVars,
                         cursorVars, brace, shell, store>>
InfoRuns == ~info.panic

DoPrompt ==
    /\ InfoRuns /\ Len(info.reg) < MaxPrompts
    /\ \E p \in Prompts : info' = Prompt(info, p)
    /\ InfoFrame

DoYNPrompt ==
    /\ InfoRuns /\ Len(info.reg) < MaxPrompts
    /\ \E p \in YNPrompts : info' = YNPrompt(info, p)
    /\ InfoFrame

DoDonePrompt ==
    /\ InfoRuns
    /\ \E canceled \in BOOLEAN :
          info' = DonePrompt(info, canceled)
    /\ InfoFrame

DoReset ==
    /\ InfoRuns
    /\ info' = Reset(info)
    /\ InfoFrame

DoMessage ==
    /\ InfoRuns
    /\ info' = Message(info, "message")
    /\ InfoFrame

DoGutterMessage ==
    /\ InfoRuns
    /\ info' = GutterMessage(info, "message")
    /\ InfoFrame

DoClearGutter ==
    /\ InfoRuns
    /\ info' = ClearGutter(info)
    /\ InfoFrame

DoError ==
    /\ InfoRuns
    /\ info' = Error(info, "error")
    /\ InfoFrame

DoTypeKey ==
    /\ InfoRuns /\ info.HasPrompt /\ ~info.HasYN /\ info.typed < MaxTyped
    /\ info' = TypeKey(info)
    /\ InfoFrame

DoAnswerYN ==
    /\ InfoRuns /\ info.HasPrompt /\ info.HasYN
    /\ \E yes \in BOOLEAN :
          info' = DonePrompt([info EXCEPT !.YNResp = yes], FALSE)
    /\ InfoFrame

InitInfo ==
    /\ BufIdle /\ LoadIdle /\ RuneIdle /\ UndoIdle /\ SaveIdle /\ OpenIdle
    /\ cursors = <<>> /\ curCursor = 0 /\ merge = "none" /\ brace = NoBrace
    /\ shell = NoShell /\ store = NoStore
    /\ info = NoInfo

NextInfo ==
    \/ DoPrompt \/ DoYNPrompt \/ DoDonePrompt \/ DoReset
    \/ DoMessage \/ DoGutterMessage \/ DoClearGutter \/ DoError
    \/ DoTypeKey \/ DoAnswerYN

SpecInfo == InitInfo /\ [][NextInfo]_vars

InfoTypeOK ==
    /\ info.HasYN \in BOOLEAN /\ info.HasPrompt \in BOOLEAN
    /\ info.PromptCallback \in 0..Len(info.reg) /\ info.YNCallback \in 0..Len(info.reg)
    /\ ~info.panic
    /\ \A k \in 1..Len(info.log) :
          info.log[k].ev = "invoke" => info.log[k].id <= Len(info.reg)

\* ---------------------------------------------------------------------------
\* Properties of the InfoBuf
\* ---------------------------------------------------------------------------

\* the k-th thing that happened is a call of Prompt or YNPrompt made while a
\* prompt was on screen
StartsOver(k) == info.log[k].ev = "start" /\ info.log[k].active # 0
\* and the next thing that happened is the callback of that prompt invoked
\* with canceled = true, the history one entry shorter for a text prompt
CanceledFirst(k) ==
    /\ k < Len(info.log)
    /\ LET s == info.log[k]
           e == info.log[k + 1]
       IN  /\ e.ev = "invoke" /\ e.id = s.active /\ e.canceled
           /\ info.reg[s.active].kind # "yn" =>
                 e.resp = <<>> /\ e.hist = s.hist - 1
\* the state installed by that call comes later
InstalledAfter(k) ==
    \E n \in (k + 2)..Len(info.log) : info.log[n].ev = "install"

\* C34: a Prompt or a YNPrompt started while another prompt is active first
\* cancels the active one: the callback of the overwritten prompt is invoked
\* with canceled = true, and the pending history entry of a text prompt is
\* removed, before the state of the new prompt is installed
C34_ActivePromptCanceledFirst ==
    \A k \in 1..Len(info.log) :
        StartsOver(k) => CanceledFirst(k) /\ InstalledAfter(k)

C34_Witness ==
    /\ \E k \in 1..Len(info.log) :
          StartsOver(k) /\ info.reg[info.log[k].active].kind = "text"
    /\ info.HasPrompt /\ info.HasYN /\ info.cur = 2

MessageCall == DoMessage \/ DoError \/ DoGutterMessage \/ DoClearGutter

\* C35: while a prompt is active, Message, Error, GutterMessage and
\* ClearGutter leave Msg, HasMessage and HasError as they are and the prompt
\* stays active
C35_PromptNotOverwritten ==
    [][(info.HasPrompt /\ MessageCall) =>
          /\ info'.Msg = info.Msg
          /\ info'.HasMessage = info.HasMessage
          /\ info'.HasError = info.HasError
          /\ info'.HasPrompt]_vars

\* HasGutter is cleared by every prompt that starts: it is set here by a
\* GutterMessage that came while the prompt was on screen
C35_Witness ==
    /\ info.HasPrompt /\ info.HasGutter
    /\ info.Msg \in {"> ", "Password: ", "(y,n,esc)"}

\* how many times the callback of the prompt id was invoked
Invocations(id) ==
    Cardinality({ k \in 1..Len(info.log) :
                    info.log[k].ev = "invoke" /\ info.log[k].id = id })
\* the InfoBuf still holds the callback of the prompt id for a prompt to come
\* to its end
Waiting(id) ==
    \/ info.PromptCallback = id
    \/ info.YNCallback = id /\ info.HasYN

\* C36: the callback of a prompt is invoked at most once, and exactly once
\* when the prompt was finished by DonePrompt or replaced by a later prompt
C36_CallbackExactlyOnce ==
    \A id \in 1..Len(info.reg) :
        /\ Invocations(id) <= 1
        /\ ~Waiting(id) => Invocations(id) = 1

\* the callback of a prompt is invoked at most once
C36_CallbackAtMostOnce ==
    \A id \in 1..Len(info.reg) : Invocations(id) <= 1

\* a prompt through with its callback invoked once and another one replaced
\* without
C36_CallbackLost ==
    \E id \in 1..Len(info.reg) : ~Waiting(id) /\ Invocations(id) = 0

\* a prompt started by Prompt is on screen and no key has been typed into it
PromptUntouched ==
    /\ info.HasPrompt /\ ~info.HasYN /\ info.typed = 0
    /\ info.cur # 0 /\ info.reg[info.cur].kind # "yn"

\* C37: whenever a prompt started by Prompt(prompt, msg, ...) is active and no
\* key has been typed, the text of the info buffer is exactly msg and
\* HasPrompt is true, also when Prompt was called from inside the callback of
\* the prompt that DonePrompt is finishing
C37_PromptTextIsMsg ==
    PromptUntouched => info.text = info.reg[info.cur].msg /\ info.HasPrompt

\* the prompt on screen was started by the callback of the prompt that
\* DonePrompt finished, and its msg is gone from the buffer
C37_ChainedPromptTextLost ==
    /\ PromptUntouched
    /\ Len(info.log) >= 3
    /\ info.log[Len(info.log)].ev = "install"
    /\ info.log[Len(info.log) - 1].ev = "start"
    /\ info.log[Len(info.log) - 2].ev = "invoke"
    /\ ~info.log[Len(info.log) - 2].canceled
    /\ info.reg[info.cur].msg = <<"m">> /\ info.text = <<>>

\* what History holds, all kinds of prompt together
HistoryEntries ==
    { info.History.text[k] : k \in 1..Len(info.History.text) }
        \cup { info.History.secret[k] : k \in 1..Len(info.History.secret) }
SecretNotInHistory ==
    \A e \in HistoryEntries : \A k \in 1..Len(e) : e[k] # "s"
\* DonePrompt is called and finishes the secret prompt on screen
FinishesSecret ==
    /\ DoDonePrompt
    /\ info.HasPrompt /\ ~info.HasYN /\ info.PromptType = "secret"
    /\ info.PromptCallback = info.cur

\* C38: what is typed into a secret prompt is never stored in History, and
\* after DonePrompt has finished a secret prompt, accepted or canceled,
\* Secret is empty
C38_SecretForgotten ==
    /\ []SecretNotInHistory
    /\ [][FinishesSecret => info'.Secret = <<>>]_vars

\* what is typed into a secret prompt is never stored in History
C38_SecretNeverInHistory == SecretNotInHistory

\* after DonePrompt has finished a secret prompt by accepting the answer,
\* Secret is empty and the callback has received what was typed
C38_SecretForgottenWhenAccepted ==
    [][(FinishesSecret /\ info'.Secret # <<>>) =>
          info'.log[Len(info.log) + 1].canceled]_vars

\* a secret was typed, the prompt is over, and Secret still holds it
C38_SecretKept ==
    /\ ~info.HasPrompt /\ info.PromptType = "secret"
    /\ info.Secret = <<"s">> /\ info.PromptCallback = 0
====
